---------------------------- MODULE Spec2Model ----------------------------
(***************************************************************************)
(* A model of marvin-chess's self-play data generation scripts:            *)
(*   - the work coordinator of scripts/gensfen.py (request_work,           *)
(*     process_func, main), with its two copies in scripts/gennnuedata.py  *)
(*     and tools/generate_training_data.py;                                *)
(*   - the binary position codec of scripts/gensfen.py (encode_bit,        *)
(*     encode_bits, encode_piece_at, encode_position, encode_move,         *)
(*     write_sfen_bin);                                                    *)
(*   - the game session of scripts/gensfen.py (play_game).                 *)
(* Three specifications share the module: Spec (the coordinator),          *)
(* SpecCodec (the codec applied to bounded inputs) and SpecGame (one call  *)
(* of play_game against a nondeterministic engine and board).              *)
(***************************************************************************)
EXTENDS Integers, Sequences, FiniteSets, TLC

(***************************************************************************)
(* Program constants.                                                      *)
(***************************************************************************)
BATCH_SIZE == 1000
BATCH_SIZE_nnue == 1000
BATCH_SIZE_gtd == 1000
MAX_PLY == 400
MIN_DRAW_PLY == 80
DRAW_SCORE == 10
DRAW_COUNT == 10
RESIGN_SCORE == 10000
RESIGN_COUNT == 10
\* args.eval_limit, at its default
eval_limit == 19000
\* gennnuedata.py: the draw adjudication and the default of --eval_limit
DRAW_SCORE_nnue == 0
DRAW_COUNT_nnue == 8
eval_limit_nnue == 20000

(***************************************************************************)
(* Bounds of the model.                                                    *)
(***************************************************************************)
\* Most worker processes (args.nthreads) of a run.
MaxWorkers == 2
\* args.npositions is drawn from b*BATCH_SIZE + e, b in 0..MaxBatches,
\* e in 0..MaxExtra: requests below, at and above whole batches.
MaxBatches == 1
MaxExtra == 1
\* Most records written to the binary file of the codec specification.
MaxRecords == 2
\* Most searches (engine.play calls) of the game of the session
\* specification.
MaxPlies == 3
\* Most searches of a game on a board of a steady line (see GameBoard).
MaxLinePlies == 11
\* Most random opening moves (args.random_plies) still to play when the
\* model takes up a game.
MaxRandomPlies == 2

VARIABLES
    \* ---- coordinator (gensfen.py main / process_func / request_work) ----
    npositions,     \* args.npositions
    nthreads,       \* args.nthreads
    remaining_work, \* Value('i', args.npositions)
    finished_work,  \* Value('i', 0)
    position_lock,  \* Lock(): the set of processes holding it
    w_pc,           \* worker pid -> its position in process_func
    work_todo,      \* worker pid -> local work_todo
    pos_left,       \* worker pid -> local pos_left
    npos,           \* worker pid -> local npos of request_work
    req_snap,       \* worker pid -> the counters as they were at acquire()
    shard_open,     \* worker pid -> whether training_file exists
    shard,          \* worker pid -> number of records in training_file
    allocated,      \* sum of all values returned by request_work so far
    m_pc,           \* the parent's position in main
    m_i,            \* the parent's loop index (pid / file index)
    pos_generated,  \* the parent's local pos_generated
    output_open,    \* whether args.output exists
    output          \* args.output: the chunks copied into it so far

workVars == <<npositions, nthreads, remaining_work, finished_work,
              position_lock, w_pc, work_todo, pos_left, npos, req_snap,
              shard_open, shard, allocated, m_pc, m_i, pos_generated,
              output_open, output>>

VARIABLES
    \* ---- codec (gensfen.py encode_position / encode_move / write_sfen_bin)
    c_board,        \* the board of the position being recorded
    c_data,         \* << >>, or the array encode_position(c_board) returned
    c_sfen,         \* << >>, or <<sfen>>: the dict built at lines 291-292
    c_result,       \* result_val handed to write_sfen_bin
    c_fh,           \* the bytes of the binary training file
    c_nrec          \* the number of write_sfen_bin calls made on c_fh

codecVars == <<c_board, c_data, c_sfen, c_result, c_fh, c_nrec>>

VARIABLES
    \* ---- game session (play_game of gensfen.py and gennnuedata.py) ----
    g_script,       \* the script whose play_game runs
    g_pc,           \* the position in play_game
    g_board,        \* board
    g_engine,       \* the engine subprocess: "none", "running", "quit"
    g_reply,        \* << >>, or <<result>>: what engine.play returned last
    g_positions,    \* positions: the records buffered so far
    g_resign_count, \* resign_count
    g_draw_count,   \* draw_count
    g_result_val,   \* result_val
    g_pos_left,     \* pos_left
    g_fh,           \* fh: the records written to the shard
    g_ret,          \* << >>, or <<the value play_game returned>>
    g_nsearch,      \* the number of engine.play calls made
    g_random,       \* the iterations play_random_moves has left
    g_last,         \* the way the loop body ended last
    d_script,       \* the script that drives the engine over its pipes
    d_pc,           \* the position in the script
    d_sent,         \* the commands written to the engine's stdin so far
    d_in,           \* the lines read from the engine's stdout so far
    d_out,          \* the lines the engine has yet to print before it exits
    l_script,       \* the script whose play_game sets up the search limits
    l_depth,        \* args.depth: << >> for None, or <<depth>>
    l_nodes,        \* args.nodes: << >> for None, or <<nodes>>
    l_pc,           \* the position in play_game
    l_limit,        \* limit: << >> before it is set up, or <<the Limit>>
    l_requests,     \* the limits passed to engine.play so far
    t_samples,      \* args.samples of gentrainingset.py
    t_npositions,   \* args.npositions of gentrainingset.py
    t_games,        \* the games of the input PGN not yet done with
    t_read,         \* the number of games read from the input
    t_pc,           \* the position in gentrainingset.py
    t_plies,        \* the plycount of each position iterate_game appended
    t_epdlist,      \* epdlist: the candidates still to choose from
    t_samples_to_get, \* samples_to_get
    t_randlist,     \* randlist
    t_count,        \* npositions: the positions written so far
    t_epd           \* the lines written to the output EPD

gameVars == <<g_script, g_pc, g_board, g_engine, g_reply, g_positions, g_resign_count,
              g_draw_count, g_result_val, g_pos_left, g_fh, g_ret, g_nsearch,
              g_random, g_last>>

driverVars == <<d_script, d_pc, d_sent, d_in, d_out>>

limitVars == <<l_script, l_depth, l_nodes, l_pc, l_limit, l_requests>>

trainVars == <<t_samples, t_npositions, t_games, t_read, t_pc, t_plies,
               t_epdlist, t_samples_to_get, t_randlist, t_count, t_epd>>

vars ==
    <<workVars, codecVars, gameVars, driverVars, limitVars, trainVars>>

Min(a, b) == IF a < b THEN a ELSE b

(***************************************************************************)
(* request_work: the batch computed from the remaining counter, in each    *)
(* of the three scripts that carry a copy of it.                           *)
(***************************************************************************)
request_work_npos_noclamp(remaining) ==
    IF remaining = 0 THEN 0 ELSE BATCH_SIZE

request_work_npos_swapped(remaining) ==
    IF remaining = 0 THEN 0
    ELSE IF remaining < BATCH_SIZE THEN BATCH_SIZE
    ELSE remaining

request_work_npos(remaining) ==
    IF remaining = 0 THEN 0
    ELSE IF remaining < BATCH_SIZE THEN remaining
    ELSE BATCH_SIZE

request_work_npos_nnue(remaining) ==
    IF remaining = 0 THEN 0
    ELSE IF remaining < BATCH_SIZE_nnue THEN remaining
    ELSE BATCH_SIZE_nnue

request_work_npos_gtd(remaining) ==
    IF remaining = 0 THEN 0
    ELSE IF remaining < BATCH_SIZE_gtd THEN remaining
    ELSE BATCH_SIZE_gtd

(***************************************************************************)
(* The processes: worker pids 0..nthreads-1, and the parent.               *)
(***************************************************************************)
Workers == 0 .. (nthreads - 1)
MainProc == nthreads

\* position_lock.acquire() returns only when nobody holds the lock.
LockFreeUnguarded == TRUE

LockFree == position_lock = {}

\* The numbers of records a finished game may have buffered: none, some,
\* and the most a game can buffer (one per ply up to the ply limit).
GameRecordChoices == {0, MAX_PLY \div 2, MAX_PLY}

\* args.npositions of a run.
NPositionsChoices ==
    {b * BATCH_SIZE + e : b \in 0 .. MaxBatches, e \in 0 .. MaxExtra}

(***************************************************************************)
(* play_game's final loop (gensfen.py 338-345), seen from the coordinator: *)
(* one write and one pos_left = pos_left - 1 per buffered position, left   *)
(* by the break at the first iteration i after which pos_left is 0.  k is  *)
(* the number of buffered positions, left the value of pos_left on entry.  *)
(* WriteIterations is the number of iterations the loop executes.          *)
(***************************************************************************)
WriteIterationsNoBreak(k, left) == k

\* the loop with the break tested before pos_left is decremented
WriteIterationsLate(k, left) == IF k > left THEN left + 1 ELSE k

WriteIterations(k, left) ==
    IF \E i \in 1 .. k : left - i = 0
    THEN CHOOSE i \in 1 .. k : left - i = 0
    ELSE k

\* one game per batch: pos_left is taken to be 0 after the first game
WritePositionsOnce(nrec, k, left) == <<nrec + WriteIterations(k, left), 0>>

\* <<records in the file, pos_left>> after the loop and fh.flush().
WritePositions(nrec, k, left) ==
    <<nrec + WriteIterations(k, left), left - WriteIterations(k, left)>>

(***************************************************************************)
(* Init of the coordinator: main() before its first statement.             *)
(***************************************************************************)
WorkInit ==
    /\ npositions \in NPositionsChoices
    /\ nthreads \in 1 .. MaxWorkers
    /\ remaining_work = npositions
    /\ finished_work = 0
    /\ position_lock = {}
    /\ w_pc = [w \in 0 .. (nthreads - 1) |-> "unstarted"]
    /\ work_todo = [w \in 0 .. (nthreads - 1) |-> 0]
    /\ pos_left = [w \in 0 .. (nthreads - 1) |-> 0]
    /\ npos = [w \in 0 .. (nthreads - 1) |-> 0]
    /\ req_snap = [w \in 0 .. (nthreads - 1) |-> <<0, 0>>]
    /\ shard_open = [w \in 0 .. (nthreads - 1) |-> FALSE]
    /\ shard = [w \in 0 .. (nthreads - 1) |-> 0]
    /\ allocated = 0
    /\ m_pc = "start"
    /\ m_i = 0
    /\ pos_generated = 0
    /\ output_open = FALSE
    /\ output = <<>>

(***************************************************************************)
(* main, lines 405-412: start one process per pid.                         *)
(***************************************************************************)
MainStart ==
    /\ m_pc = "start"
    /\ IF m_i < nthreads
       THEN /\ w_pc' = [w_pc EXCEPT ![m_i] = "open"]
            /\ m_i' = m_i + 1
            /\ m_pc' = m_pc
       ELSE /\ m_pc' = "progress"
            /\ UNCHANGED <<w_pc, m_i>>
    /\ UNCHANGED <<npositions, nthreads, remaining_work, finished_work,
                   position_lock, work_todo, pos_left, npos, req_snap,
                   shard_open, shard, allocated, pos_generated, output_open, output>>

(***************************************************************************)
(* main, lines 415-424: the progress loop.  MainAcquire is the sleep and   *)
(* position_lock.acquire(); MainReport reads the counter, releases the     *)
(* lock, prints and tests pos_generated == args.npositions.                *)
(***************************************************************************)
MainAcquire ==
    /\ m_pc = "progress"
    /\ LockFree
    /\ position_lock' = position_lock \cup {MainProc}
    /\ m_pc' = "report"
    /\ UNCHANGED <<npositions, nthreads, remaining_work, finished_work,
                   w_pc, work_todo, pos_left, npos, req_snap, shard_open,
                   shard, allocated, m_i, pos_generated, output_open, output>>

MainReport ==
    /\ m_pc = "report"
    /\ pos_generated' = finished_work
    /\ position_lock' = position_lock \ {MainProc}
    /\ IF finished_work = npositions
       THEN m_pc' = "join" /\ m_i' = 0
       ELSE m_pc' = "progress" /\ m_i' = m_i
    /\ UNCHANGED <<npositions, nthreads, remaining_work, finished_work,
                   w_pc, work_todo, pos_left, npos, req_snap, shard_open,
                   shard, allocated, output_open, output>>

(***************************************************************************)
(* main, lines 428-429: join every process in turn.                        *)
(***************************************************************************)
MainJoin ==
    /\ m_pc = "join"
    /\ IF m_i < nthreads
       THEN /\ w_pc[m_i] \in {"exited", "crashed"}
            /\ m_i' = m_i + 1
            /\ m_pc' = m_pc
       ELSE /\ m_pc' = "merge_open"
            /\ m_i' = 0
    /\ UNCHANGED <<npositions, nthreads, remaining_work, finished_work,
                   position_lock, w_pc, work_todo, pos_left, npos, req_snap,
                   shard_open, shard, allocated, pos_generated, output_open, output>>

(***************************************************************************)
(* main, lines 432-443: open the output, copy every shard, remove them.    *)
(***************************************************************************)
MainMergeOpen ==
    /\ m_pc = "merge_open"
    /\ output_open' = TRUE
    /\ output' = <<>>
    /\ m_pc' = "copy"
    /\ m_i' = 0
    /\ UNCHANGED <<npositions, nthreads, remaining_work, finished_work,
                   position_lock, w_pc, work_todo, pos_left, npos, req_snap,
                   shard_open, shard, allocated, pos_generated>>

MainCopy ==
    /\ m_pc = "copy"
    /\ IF m_i < nthreads
       THEN /\ shard_open[m_i]
            /\ output' = Append(output, [src |-> m_i, nrec |-> shard[m_i]])
            /\ m_i' = m_i + 1
            /\ m_pc' = m_pc
       ELSE /\ m_pc' = "remove"
            /\ m_i' = 0
            /\ output' = output
    /\ UNCHANGED <<npositions, nthreads, remaining_work, finished_work,
                   position_lock, w_pc, work_todo, pos_left, npos, req_snap,
                   shard_open, shard, allocated, pos_generated, output_open>>

MainRemove ==
    /\ m_pc = "remove"
    /\ IF m_i < nthreads
       THEN /\ shard_open[m_i]
            /\ shard_open' = [shard_open EXCEPT ![m_i] = FALSE]
            /\ shard' = [shard EXCEPT ![m_i] = 0]
            /\ m_i' = m_i + 1
            /\ m_pc' = m_pc
       ELSE /\ m_pc' = "done"
            /\ UNCHANGED <<shard_open, shard, m_i>>
    /\ UNCHANGED <<npositions, nthreads, remaining_work, finished_work,
                   position_lock, w_pc, work_todo, pos_left, npos, req_snap,
                   allocated, pos_generated, output_open, output>>

(***************************************************************************)
(* process_func, lines 373-377: open (create or truncate) the shard.       *)
(***************************************************************************)
WorkerOpen(w) ==
    /\ w_pc[w] = "open"
    /\ shard_open' = [shard_open EXCEPT ![w] = TRUE]
    /\ shard' = [shard EXCEPT ![w] = 0]
    /\ w_pc' = [w_pc EXCEPT ![w] = "acquire"]
    /\ UNCHANGED <<npositions, nthreads, remaining_work, finished_work,
                   position_lock, work_todo, pos_left, npos, req_snap,
                   allocated, m_pc, m_i, pos_generated, output_open,
                   output>>

(***************************************************************************)
(* request_work(work_todo, ...), lines 352-362, called at lines 382-386.   *)
(* ReqAcquire: acquire() and finished_work.value += finished;              *)
(* ReqAlloc: the if/elif/else that reads remaining_work into npos;         *)
(* ReqRelease: remaining_work.value -= npos, release(), return npos, and   *)
(* the caller's test of the returned value.                                *)
(***************************************************************************)
ReqAcquire(w) ==
    /\ w_pc[w] = "acquire"
    /\ LockFree
    /\ position_lock' = position_lock \cup {w}
    /\ req_snap' = [req_snap EXCEPT ![w] = <<remaining_work, finished_work>>]
    /\ finished_work' = finished_work + work_todo[w]
    /\ w_pc' = [w_pc EXCEPT ![w] = "alloc"]
    /\ UNCHANGED <<npositions, nthreads, remaining_work,
                   work_todo, pos_left, npos, shard_open, shard, allocated,
                   m_pc, m_i, pos_generated, output_open, output>>

ReqAlloc(w) ==
    /\ w_pc[w] = "alloc"
    /\ npos' = [npos EXCEPT ![w] = request_work_npos(remaining_work)]
    /\ w_pc' = [w_pc EXCEPT ![w] = "release"]
    /\ UNCHANGED <<npositions, nthreads, remaining_work, finished_work,
                   position_lock, work_todo, pos_left, req_snap, shard_open,
                   shard, allocated, m_pc, m_i, pos_generated, output_open,
                   output>>

ReqRelease(w) ==
    /\ w_pc[w] = "release"
    /\ remaining_work' = remaining_work - npos[w]
    /\ position_lock' = position_lock \ {w}
    /\ req_snap' = [req_snap EXCEPT ![w] = <<0, 0>>]
    /\ work_todo' = [work_todo EXCEPT ![w] = npos[w]]
    /\ allocated' = allocated + npos[w]
    /\ IF npos[w] = 0
       THEN /\ w_pc' = [w_pc EXCEPT ![w] = "close"]
            /\ pos_left' = pos_left
       ELSE /\ w_pc' = [w_pc EXCEPT ![w] = "play"]
            /\ pos_left' = [pos_left EXCEPT ![w] = npos[w]]
    /\ UNCHANGED <<npositions, nthreads, finished_work,
                   npos, shard_open, shard, m_pc, m_i,
                   pos_generated, output_open, output>>

(***************************************************************************)
(* process_func, lines 387-388: one call of play_game, seen from the       *)
(* coordinator: the game buffered k positions and wrote them by the loop   *)
(* of lines 338-345.                                                       *)
(***************************************************************************)
WorkerPlayGame(w) ==
    /\ w_pc[w] = "play"
    /\ pos_left[w] > 0
    /\ \E k \in GameRecordChoices :
         LET r == WritePositions(shard[w], k, pos_left[w]) IN
           /\ shard' = [shard EXCEPT ![w] = r[1]]
           /\ pos_left' = [pos_left EXCEPT ![w] = r[2]]
           /\ w_pc' = [w_pc EXCEPT ![w] =
                          IF r[2] > 0 THEN "play" ELSE "acquire"]
    /\ UNCHANGED <<npositions, nthreads, remaining_work, finished_work,
                   position_lock, work_todo, npos, req_snap, shard_open,
                   allocated, m_pc, m_i, pos_generated, output_open,
                   output>>

(***************************************************************************)
(* process_func, lines 387-388: a call of play_game that raises (line 279, *)
(* abs(None) on a mate score) before it writes anything. Nothing in        *)
(* play_game or process_func catches the exception: the process ends with  *)
(* its batch unfinished, outside request_work and so without the lock.     *)
(***************************************************************************)
WorkerPlayGameRaises(w) ==
    /\ w_pc[w] = "play"
    /\ pos_left[w] > 0
    /\ w_pc' = [w_pc EXCEPT ![w] = "crashed"]
    /\ UNCHANGED <<npositions, nthreads, remaining_work, finished_work,
                   position_lock, work_todo, pos_left, npos, req_snap,
                   shard_open, shard, allocated, m_pc, m_i, pos_generated,
                   output_open, output>>

\* process_func, line 390: fh.close(), and the process ends.
WorkerClose(w) ==
    /\ w_pc[w] = "close"
    /\ w_pc' = [w_pc EXCEPT ![w] = "exited"]
    /\ UNCHANGED <<npositions, nthreads, remaining_work, finished_work,
                   position_lock, work_todo, pos_left, npos, req_snap,
                   shard_open, shard, allocated, m_pc, m_i, pos_generated,
                   output_open, output>>

(***************************************************************************)
(*        THE COORDINATOR OF src/tools/generate_training_data.py           *)
(*                                                                         *)
(* main and request_work are those of gensfen.py but for three things: the *)
(* worker does not open its shard (process_func, lines 64-81): the file is *)
(* written by the engine that generate_batch runs; the reporting loop      *)
(* divides by args.npositions (line 111); and the output is opened for     *)
(* appending (line 124).                                                   *)
(***************************************************************************)
\* What args.output can hold before the run: nothing, or earlier data
OldOutputChoices == {<< >>, <<[src |-> 0 - 1, nrec |-> 1]>>}

ToolInit ==
    /\ npositions \in NPositionsChoices
    /\ nthreads \in 1 .. MaxWorkers
    /\ remaining_work = npositions
    /\ finished_work = 0
    /\ position_lock = {}
    /\ w_pc = [w \in 0 .. (nthreads - 1) |-> "unstarted"]
    /\ work_todo = [w \in 0 .. (nthreads - 1) |-> 0]
    /\ pos_left = [w \in 0 .. (nthreads - 1) |-> 0]
    /\ npos = [w \in 0 .. (nthreads - 1) |-> 0]
    /\ req_snap = [w \in 0 .. (nthreads - 1) |-> <<0, 0>>]
    /\ shard_open = [w \in 0 .. (nthreads - 1) |-> FALSE]
    /\ shard = [w \in 0 .. (nthreads - 1) |-> 0]
    /\ allocated = 0
    /\ m_pc = "start"
    /\ m_i = 0
    /\ pos_generated = 0
    /\ output \in OldOutputChoices
    /\ output_open = (output # << >>)

\* process_func, lines 66-73: the process starts; no file is opened.
ToolWorkerStart(w) ==
    /\ w_pc[w] = "open"
    /\ w_pc' = [w_pc EXCEPT ![w] = "acquire"]
    /\ UNCHANGED <<npositions, nthreads, remaining_work, finished_work,
                   position_lock, work_todo, pos_left, npos, req_snap,
                   shard_open, shard, allocated, m_pc, m_i, pos_generated,
                   output_open, output>>

\* generate_batch, lines 18-48, called at line 81: the engine is run with
\* --output training_file --npositions work_todo and writes that many
\* records to the file, after what the file held or in its place.
ToolGenerateBatch(w) ==
    /\ w_pc[w] = "play"
    /\ shard_open' = [shard_open EXCEPT ![w] = TRUE]
    /\ \E n \in {work_todo[w], shard[w] + work_todo[w]} :
          shard' = [shard EXCEPT ![w] = n]
    /\ pos_left' = [pos_left EXCEPT ![w] = 0]
    /\ w_pc' = [w_pc EXCEPT ![w] = "acquire"]
    /\ UNCHANGED <<npositions, nthreads, remaining_work, finished_work,
                   position_lock, work_todo, npos, req_snap, allocated,
                   m_pc, m_i, pos_generated, output_open, output>>

\* process_func, lines 78-79: work_todo is 0 and the process ends.
ToolWorkerExit(w) ==
    /\ w_pc[w] = "close"
    /\ w_pc' = [w_pc EXCEPT ![w] = "exited"]
    /\ UNCHANGED <<npositions, nthreads, remaining_work, finished_work,
                   position_lock, work_todo, pos_left, npos, req_snap,
                   shard_open, shard, allocated, m_pc, m_i, pos_generated,
                   output_open, output>>

\* main, lines 108-115: the value read is printed with its percentage of
\* args.npositions; dividing by 0 raises ZeroDivisionError.
ToolReport ==
    /\ m_pc = "report"
    /\ pos_generated' = finished_work
    /\ position_lock' = position_lock \ {MainProc}
    /\ IF npositions = 0
       THEN m_pc' = "raised" /\ m_i' = m_i
       ELSE IF finished_work = npositions
       THEN m_pc' = "join" /\ m_i' = 0
       ELSE m_pc' = "progress" /\ m_i' = m_i
    /\ UNCHANGED <<npositions, nthreads, remaining_work, finished_work,
                   w_pc, work_todo, pos_left, npos, req_snap, shard_open,
                   shard, allocated, output_open, output>>

\* main, line 124: open(args.output, 'ab') keeps what the file holds.
ToolMergeOpen ==
    /\ m_pc = "merge_open"
    /\ output_open' = TRUE
    /\ m_pc' = "copy"
    /\ m_i' = 0
    /\ UNCHANGED <<npositions, nthreads, remaining_work, finished_work,
                   position_lock, w_pc, work_todo, pos_left, npos, req_snap,
                   shard_open, shard, allocated, pos_generated, output>>

\* main, lines 125-127: open(f, 'rb') raises FileNotFoundError when the
\* shard does not exist.
ToolCopy ==
    /\ m_pc = "copy"
    /\ IF m_i < nthreads
       THEN IF shard_open[m_i]
            THEN /\ output' = Append(output,
                                     [src |-> m_i, nrec |-> shard[m_i]])
                 /\ m_i' = m_i + 1
                 /\ m_pc' = m_pc
            ELSE /\ m_pc' = "raised"
                 /\ UNCHANGED <<output, m_i>>
       ELSE /\ m_pc' = "remove"
            /\ m_i' = 0
            /\ output' = output
    /\ UNCHANGED <<npositions, nthreads, remaining_work, finished_work,
                   position_lock, w_pc, work_todo, pos_left, npos, req_snap,
                   shard_open, shard, allocated, pos_generated, output_open>>

(***************************************************************************)
(*                         THE POSITION CODEC                              *)
(*                                                                         *)
(* python-chess values: piece types PAWN..KING are 1..6, the colours are   *)
(* WHITE = True and BLACK = False, squares are 0 (a1) .. 63 (h8).  An      *)
(* Optional value is a sequence: << >> for None, <<v>> for v.              *)
(***************************************************************************)
PAWN == 1
KNIGHT == 2
BISHOP == 3
ROOK == 4
QUEEN == 5
KING == 6
WHITE == TRUE
BLACK == FALSE

HUFFMAN_TABLE == <<0, 1, 3, 5, 7, 9>>

RECURSIVE Pow2(_)
Pow2(n) == IF n = 0 THEN 1 ELSE 2 * Pow2(n - 1)

\* np.uint16(x), np.uint8(x)
U16(x) == x % 65536
U8(x) == x % 256

\* Bit i of the non-negative integer x.
BitOf(x, i) == (x \div Pow2(i)) % 2

RECURSIVE BitOrFrom(_, _, _, _)
BitOrFrom(a, b, i, nbits) ==
    IF i = nbits THEN 0
    ELSE (IF BitOf(a, i) = 1 \/ BitOf(b, i) = 1 THEN Pow2(i) ELSE 0)
         + BitOrFrom(a, b, i + 1, nbits)

\* a | b on 16-bit values
BitOr16(a, b) == BitOrFrom(a, b, 0, 16)

\* a | b on 8-bit values
BitOr8(a, b) == BitOrFrom(a, b, 0, 8)

\* value & (1 << i)
AndBit(value, i) == BitOf(value, i) * Pow2(i)

square_file(sq) == sq % 8
square_rank(sq) == sq \div 8
Abs(x) == IF x < 0 THEN 0 - x ELSE x

(***************************************************************************)
(* encode_bit(data, pos, value): data is the 32-byte array (data[i+1] is   *)
(* Python's data[i]); the result is <<data, pos + 1>>.                     *)
(***************************************************************************)
encode_bit(data, pos, value) ==
    IF U16(value) # 0
    THEN <<[data EXCEPT ![(pos \div 8) + 1] =
                U8(BitOr8(data[(pos \div 8) + 1], Pow2(pos % 8)))],
           pos + 1>>
    ELSE <<data, pos + 1>>

\* Python runs statement after statement; TLC evaluates an operator's
\* arguments only when they are used.  Strict(e) is TRUE of every pair
\* e = <<data, pos>> and has TLC compute e before it is passed on.
Strict(e) == e[2] = e[2]

(***************************************************************************)
(* encode_bits(data, pos, value, nbits): bit i of value for i = 0, 1, ..   *)
(***************************************************************************)
RECURSIVE encode_bits_msb_from(_, _, _, _, _)
encode_bits_msb_from(data, pos, value, nbits, i) ==
    IF i >= nbits THEN <<data, pos>>
    ELSE LET r == encode_bit(data, pos, U16(AndBit(value, nbits - 1 - i)))
         IN  IF Strict(r)
             THEN encode_bits_msb_from(r[1], r[2], value, nbits, i + 1)
             ELSE r

encode_bits_msb(data, pos, value, nbits) ==
    encode_bits_msb_from(data, pos, value, nbits, 0)

RECURSIVE encode_bits_from(_, _, _, _, _)
encode_bits_from(data, pos, value, nbits, i) ==
    IF i >= nbits THEN <<data, pos>>
    ELSE LET r == encode_bit(data, pos, U16(AndBit(value, i)))
         IN  IF Strict(r)
             THEN encode_bits_from(r[1], r[2], value, nbits, i + 1)
             ELSE r

encode_bits(data, pos, value, nbits) ==
    encode_bits_from(data, pos, value, nbits, 0)

(***************************************************************************)
(* The board: pieces maps a square to << >> or <<piece_type, colour>>.     *)
(***************************************************************************)
piece_at(board, sq) == board.pieces[sq]

piece_type_at(board, sq) ==
    IF board.pieces[sq] = << >> THEN << >> ELSE <<board.pieces[sq][1]>>

color_at(board, sq) ==
    IF board.pieces[sq] = << >> THEN << >> ELSE <<board.pieces[sq][2]>>

\* board.king(color): the square of that colour's king
king(board, color) ==
    CHOOSE sq \in 0 .. 63 : board.pieces[sq] = <<KING, color>>

\* np.uint16(b) of a Python bool
BoolInt(b) == IF b THEN 1 ELSE 0

encode_piece_at_colour_swapped(data, pos, board, sq) ==
    IF piece_type_at(board, sq) = << >>
    THEN encode_bits(data, pos, U16(HUFFMAN_TABLE[1]), 1)
    ELSE LET r == encode_bits(data, pos,
                      U16(HUFFMAN_TABLE[piece_type_at(board, sq)[1] + 1]), 4)
         IN  encode_bit(r[1], r[2], U16(BoolInt(color_at(board, sq)[1])))

encode_piece_at(data, pos, board, sq) ==
    IF piece_type_at(board, sq) = << >>
    THEN encode_bits(data, pos, U16(HUFFMAN_TABLE[1]), 1)
    ELSE LET r == encode_bits(data, pos,
                      U16(HUFFMAN_TABLE[piece_type_at(board, sq)[1] + 1]), 4)
         IN  encode_bit(r[1], r[2], U16(BoolInt(~color_at(board, sq)[1])))

(***************************************************************************)
(* encode_position(board), lines 76-130.                                   *)
(***************************************************************************)
\* lines 89-95: for f in range(0, 8), at rank r
RECURSIVE encode_files(_, _, _, _, _)
encode_files(data, pos, board, r, f) ==
    IF f > 7 THEN <<data, pos>>
    ELSE LET sq == r * 8 + f
             pc == piece_at(board, sq)
         IN  IF pc # << >> /\ (pc[1] = KING \/ pc[1] = KING)
             THEN encode_files(data, pos, board, r, f + 1)
             ELSE LET e == encode_piece_at(data, pos, board, sq)
                  IN  IF Strict(e)
                      THEN encode_files(e[1], e[2], board, r, f + 1)
                      ELSE e

\* lines 88-95: for r in reversed(range(0, 8))
RECURSIVE encode_ranks(_, _, _, _)
encode_ranks(data, pos, board, r) ==
    IF r < 0 THEN <<data, pos>>
    ELSE LET e == encode_files(data, pos, board, r, 0)
         IN  IF Strict(e)
             THEN encode_ranks(e[1], e[2], board, r - 1)
             ELSE e

\* lines 97-105: the four castling bits
encode_castling(data, pos, board) ==
    LET a == encode_bit(data, pos, U16(BoolInt(board.castling.wk)))
        b == encode_bit(a[1], a[2], U16(BoolInt(board.castling.wq)))
        c == encode_bit(b[1], b[2], U16(BoolInt(board.castling.bk)))
    IN  encode_bit(c[1], c[2], U16(BoolInt(board.castling.bq)))

\* the en-passant field written with its six square bits in every case
encode_ep_always(data, pos, board) ==
    LET a == encode_bit(data, pos, U16(BoolInt(board.ep_square # << >>)))
    IN  encode_bits(a[1], a[2],
                    U16(IF board.ep_square = << >> THEN 0
                        ELSE board.ep_square[1]), 6)

\* lines 107-112: "if not board.ep_square" is true of None and of square 0
encode_ep(data, pos, board) ==
    IF board.ep_square = << >> \/ board.ep_square = <<0>>
    THEN encode_bit(data, pos, U16(0))
    ELSE LET a == encode_bit(data, pos, U16(1))
         IN  encode_bits(a[1], a[2], U16(board.ep_square[1]), 6)

\* lines 118-128: the counters
encode_counters_seven(data, pos, board) ==
    LET a == encode_bits(data, pos, U16(board.halfmove_clock), 7)
        b == encode_bits(a[1], a[2], U16(board.fullmove_number), 8)
    IN  encode_bits(b[1], b[2], U16(board.fullmove_number \div 256), 8)

encode_counters(data, pos, board) ==
    LET a == encode_bits(data, pos, U16(board.halfmove_clock), 6)
        b == encode_bits(a[1], a[2], U16(board.fullmove_number), 8)
        high_bit == (board.halfmove_clock \div 64) % 2
        c == encode_bits(b[1], b[2], U16(board.fullmove_number \div 256), 8)
    IN  encode_bit(c[1], c[2], U16(high_bit))

\* <<data, pos>> when encode_position returns
encode_position_cursor(board) ==
    LET data0 == <<0, 0, 0, 0, 0, 0, 0, 0, 0, 0, 0, 0, 0, 0, 0, 0,
                   0, 0, 0, 0, 0, 0, 0, 0, 0, 0, 0, 0, 0, 0, 0, 0>>
        a == encode_bit(data0, U16(0), U16(BoolInt(~board.turn)))
        b == encode_bits(a[1], a[2], U16(king(board, WHITE)), 6)
        c == encode_bits(b[1], b[2], U16(king(board, BLACK)), 6)
        d == encode_ranks(c[1], c[2], board, 7)
        e == encode_castling(d[1], d[2], board)
        g == encode_ep(e[1], e[2], board)
    IN  encode_counters(g[1], g[2], board)

encode_position(board) == encode_position_cursor(board)[1]

(***************************************************************************)
(* python-chess's Board.is_en_passant, is_castling, is_kingside_castling,  *)
(* is_queenside_castling, as encode_move calls them.                       *)
(***************************************************************************)
is_en_passant(board, move) ==
    /\ board.ep_square = <<move.to_square>>
    /\ board.pieces[move.from_square] # << >>
    /\ board.pieces[move.from_square][1] = PAWN
    /\ Abs(move.to_square - move.from_square) \in {7, 9}
    /\ board.pieces[move.to_square] = << >>

is_castling(board, move) ==
    IF board.pieces[move.from_square] # << >>
         /\ board.pieces[move.from_square][1] = KING
    THEN \/ Abs(square_file(move.from_square)
                  - square_file(move.to_square)) > 1
         \/ board.pieces[move.to_square] = <<ROOK, board.turn>>
    ELSE FALSE

is_kingside_castling(board, move) ==
    /\ is_castling(board, move)
    /\ square_file(move.to_square) > square_file(move.from_square)

is_queenside_castling(board, move) ==
    /\ is_castling(board, move)
    /\ square_file(move.to_square) < square_file(move.from_square)

(***************************************************************************)
(* encode_move(board, move), lines 137-161.                                *)
(***************************************************************************)
\* lines 140-149
encode_move_to_sq_king_target(board, move) == move.to_square

encode_move_to_sq(board, move) ==
    IF board.turn = WHITE /\ is_kingside_castling(board, move) THEN 7
    ELSE IF board.turn = WHITE /\ is_queenside_castling(board, move) THEN 0
    ELSE IF board.turn = BLACK /\ is_kingside_castling(board, move) THEN 63
    ELSE IF board.turn = BLACK /\ is_queenside_castling(board, move) THEN 56
    ELSE move.to_square

encode_move(board, move) ==
    LET to_sq == encode_move_to_sq(board, move)
        from_sq == move.from_square
        d1 == BitOr16(0, U16(to_sq))
        d2 == BitOr16(d1, U16(from_sq * 64))
        d3 == IF move.promotion # << >> /\ move.promotion # <<0>>
              THEN BitOr16(BitOr16(d2, U16((move.promotion[1] - 2) * 4096)),
                           U16(16384))
              ELSE d2
    IN  IF is_en_passant(board, move) THEN BitOr16(d3, U16(2 * 16384))
        ELSE IF is_castling(board, move) THEN BitOr16(d3, U16(3 * 16384))
        ELSE d3

(***************************************************************************)
(* write_sfen_bin(fh, sfen, result), lines 170-184: the bytes appended to  *)
(* fh.  tofile() writes each value little-endian.                          *)
(***************************************************************************)
\* np.int16(v).tofile(fh) and np.uint16(v).tofile(fh), v in range
LE16(v) == <<U16(v) % 256, U16(v) \div 256>>

\* np.int8(v).tofile(fh), v in range
LE8(v) == <<U8(v)>>

\* the result written without regard to the side to move
pov_result_of_white(sfen, result) == result

\* lines 172-174
pov_result_of(sfen, result) ==
    IF sfen.score.turn = BLACK THEN (0 - 1) * result ELSE result

\* line 175: sfen['score'].pov(sfen['score'].turn).score()
pov_score_of(sfen) == sfen.score.relative

\* the score written as a 32-bit value
write_sfen_bin_bytes_wide(sfen, result) ==
    LET board == sfen.fen
        pos_data == encode_position(board)
        move_data == encode_move(board, sfen.move)
    IN  pos_data \o LE16(pov_score_of(sfen)) \o <<0, 0>> \o LE16(move_data)
          \o LE16(sfen.ply) \o LE8(pov_result_of(sfen, result)) \o <<255>>

write_sfen_bin_bytes(sfen, result) ==
    LET board == sfen.fen
        pos_data == encode_position(board)
        move_data == encode_move(board, sfen.move)
    IN  pos_data \o LE16(pov_score_of(sfen)) \o LE16(move_data)
          \o LE16(sfen.ply) \o LE8(pov_result_of(sfen, result)) \o <<255>>

(***************************************************************************)
(* The inputs of the codec: boards, counters, moves, scores.               *)
(***************************************************************************)
\* The pieces of a board from a set of <<square, piece_type, colour>>.
PlacementOf(S) ==
    [sq \in 0 .. 63 |->
        IF \E e \in S : e[1] = sq
        THEN LET e == CHOOSE x \in S : x[1] = sq IN <<e[2], e[3]>>
        ELSE << >>]

BackRank == <<ROOK, KNIGHT, BISHOP, QUEEN, KING, BISHOP, KNIGHT, ROOK>>

\* chess.Board(): the initial position
InitialPieces ==
    [sq \in 0 .. 63 |->
        IF sq < 8 THEN <<BackRank[sq + 1], WHITE>>
        ELSE IF sq < 16 THEN <<PAWN, WHITE>>
        ELSE IF sq >= 56 THEN <<BackRank[sq - 55], BLACK>>
        ELSE IF sq >= 48 THEN <<PAWN, BLACK>>
        ELSE << >>]

\* after 1. e4
AfterE4Pieces == [InitialPieces EXCEPT ![12] = << >>, ![28] = <<PAWN, WHITE>>]

\* kings and rooks at home, rook pawns
CastlePieces ==
    PlacementOf({<<4, KING, WHITE>>, <<0, ROOK, WHITE>>, <<7, ROOK, WHITE>>,
                 <<8, PAWN, WHITE>>, <<15, PAWN, WHITE>>,
                 <<60, KING, BLACK>>, <<56, ROOK, BLACK>>,
                 <<63, ROOK, BLACK>>, <<48, PAWN, BLACK>>,
                 <<55, PAWN, BLACK>>})

\* white pawn e5, black pawn d5
EpWhitePieces ==
    PlacementOf({<<4, KING, WHITE>>, <<60, KING, BLACK>>,
                 <<36, PAWN, WHITE>>, <<35, PAWN, BLACK>>})

\* black pawn d4, white pawn e4
EpBlackPieces ==
    PlacementOf({<<4, KING, WHITE>>, <<60, KING, BLACK>>,
                 <<27, PAWN, BLACK>>, <<28, PAWN, WHITE>>})

\* white pawn b7 under a8 and c8, black pawn g2 beside h1
PromoPieces ==
    PlacementOf({<<20, KING, WHITE>>, <<44, KING, BLACK>>,
                 <<49, PAWN, WHITE>>, <<7, ROOK, WHITE>>,
                 <<14, PAWN, BLACK>>, <<56, ROOK, BLACK>>,
                 <<58, KNIGHT, BLACK>>})

Castling(wk, wq, bk, bq) == [wk |-> wk, wq |-> wq, bk |-> bk, bq |-> bq]
NoCastling == Castling(FALSE, FALSE, FALSE, FALSE)
AllCastling == Castling(TRUE, TRUE, TRUE, TRUE)
CastlingChoices ==
    {NoCastling, AllCastling,
     Castling(TRUE, FALSE, FALSE, FALSE), Castling(FALSE, TRUE, FALSE, FALSE),
     Castling(FALSE, FALSE, TRUE, FALSE), Castling(FALSE, FALSE, FALSE, TRUE)}

\* <<halfmove_clock, fullmove_number>> of recorded positions
CounterChoices == {<<0, 1>>, <<3, 17>>, <<98, 300>>}

BoardOf(pieces, turn, castling, ep, counters) ==
    [pieces |-> pieces, turn |-> turn, castling |-> castling,
     ep_square |-> ep, halfmove_clock |-> counters[1],
     fullmove_number |-> counters[2]]

\* Positions a game can record.
RecordBoards ==
    {BoardOf(InitialPieces, WHITE, AllCastling, << >>, <<0, 1>>),
     BoardOf(AfterE4Pieces, BLACK, AllCastling, << >>, <<0, 1>>),
     BoardOf(AfterE4Pieces, BLACK, AllCastling, <<20>>, <<0, 1>>)}
    \cup {BoardOf(CastlePieces, t, c, << >>, n) :
             t \in {WHITE, BLACK}, c \in CastlingChoices, n \in CounterChoices}
    \cup {BoardOf(EpWhitePieces, WHITE, NoCastling, <<43>>, <<0, n[2]>>) :
             n \in CounterChoices}
    \cup {BoardOf(EpBlackPieces, BLACK, NoCastling, <<20>>, <<0, n[2]>>) :
             n \in CounterChoices}
    \cup {BoardOf(EpWhitePieces, t, NoCastling, << >>, n) :
             t \in {WHITE, BLACK}, n \in CounterChoices}
    \cup {BoardOf(PromoPieces, t, NoCastling, << >>, n) :
             t \in {WHITE, BLACK}, n \in CounterChoices}

\* Boards that sweep the counter fields: every 7-bit half-move clock, and
\* full-move numbers around the byte boundaries of a 16-bit value.
FullmoveProbes == {0, 1, 255, 256, 257, 32767, 32768, 65535}
CounterBoards ==
    {BoardOf(CastlePieces, WHITE, NoCastling, << >>, <<h, 1>>) :
        h \in 0 .. 127}
    \cup {BoardOf(EpWhitePieces, WHITE, NoCastling, <<43>>, <<h, f>>) :
        h \in {0, 63, 64, 127}, f \in FullmoveProbes}

BoardInputs == RecordBoards \cup CounterBoards

Move(from, to, promotion) ==
    [from_square |-> from, to_square |-> to, promotion |-> promotion]

\* Some legal moves of a board, among them every special move it allows.
MoveChoices(board) ==
    IF board.pieces = InitialPieces
    THEN {Move(12, 28, << >>), Move(6, 21, << >>)}
    ELSE IF board.pieces = AfterE4Pieces
    THEN {Move(52, 36, << >>), Move(62, 45, << >>)}
    ELSE IF board.pieces = CastlePieces /\ board.turn = WHITE
    THEN {Move(4, 12, << >>), Move(0, 1, << >>)}
         \cup (IF board.castling.wk THEN {Move(4, 6, << >>)} ELSE {})
         \cup (IF board.castling.wq THEN {Move(4, 2, << >>)} ELSE {})
    ELSE IF board.pieces = CastlePieces /\ board.turn = BLACK
    THEN {Move(60, 52, << >>), Move(63, 62, << >>)}
         \cup (IF board.castling.bk THEN {Move(60, 62, << >>)} ELSE {})
         \cup (IF board.castling.bq THEN {Move(60, 58, << >>)} ELSE {})
    ELSE IF board.pieces = EpWhitePieces /\ board.turn = WHITE
    THEN {Move(36, 44, << >>), Move(4, 3, << >>)}
         \cup (IF board.ep_square = <<43>> THEN {Move(36, 43, << >>)} ELSE {})
    ELSE IF board.pieces = EpWhitePieces /\ board.turn = BLACK
    THEN {Move(35, 27, << >>), Move(60, 61, << >>)}
    ELSE IF board.pieces = EpBlackPieces
    THEN {Move(27, 19, << >>), Move(27, 20, << >>)}
    ELSE IF board.pieces = PromoPieces /\ board.turn = WHITE
    THEN {Move(49, 57, <<p>>) : p \in {KNIGHT, BISHOP, ROOK, QUEEN}}
         \cup {Move(49, 56, <<QUEEN>>), Move(49, 58, <<KNIGHT>>),
               Move(7, 15, << >>)}
    ELSE {Move(14, 6, <<p>>) : p \in {KNIGHT, QUEEN}}
         \cup {Move(14, 7, <<ROOK>>), Move(56, 57, << >>)}

\* <<score from the mover's point of view, result_val of the game>>: scores
\* within --eval_limit, each result a game can have.
OutcomeChoices == {<<0 - 19000, 0 - 1>>, <<0 - 1, 0>>, <<0, 1>>, <<300, 1>>}

\* play_game, lines 287-290
ply_of(board) ==
    IF board.turn = WHITE THEN board.fullmove_number * 2
    ELSE board.fullmove_number * 2 + 1

\* A position play_game can reach in its loop: the game is not over by the
\* fifty-move rule, and the game has a first move.
Recordable(board) ==
    /\ board.halfmove_clock < 100
    /\ board.fullmove_number >= 1
    /\ ply_of(board) < 65536

(***************************************************************************)
(* The codec specification: encode_position applied to a board, then a     *)
(* record made of it as play_game does and written with write_sfen_bin.    *)
(***************************************************************************)
CodecIdle ==
    /\ c_board = << >>
    /\ c_data = << >>
    /\ c_sfen = << >>
    /\ c_result = 0
    /\ c_fh = << >>
    /\ c_nrec = 0

CodecInit ==
    /\ c_board \in BoardInputs
    /\ c_data = << >>
    /\ c_sfen = << >>
    /\ c_result = 0
    /\ c_fh = << >>
    /\ c_nrec = 0

CodecEncodePosition ==
    /\ c_data = << >>
    /\ c_data' = encode_position(c_board)
    /\ UNCHANGED <<c_board, c_sfen, c_result, c_fh, c_nrec>>

\* play_game lines 287-293 (the record), and the result_val of the game
CodecMakeSfen ==
    /\ c_data # << >>
    /\ c_sfen = << >>
    /\ c_board \in RecordBoards
    /\ Recordable(c_board)
    /\ \E move \in MoveChoices(c_board), o \in OutcomeChoices :
         /\ c_sfen' = <<[fen |-> c_board, move |-> move,
                         score |-> [relative |-> o[1], turn |-> c_board.turn],
                         ply |-> ply_of(c_board)]>>
         /\ c_result' = o[2]
    /\ UNCHANGED <<c_board, c_data, c_fh, c_nrec>>

CodecWriteSfenBin ==
    /\ c_sfen # << >>
    /\ c_nrec < MaxRecords
    /\ c_fh' = c_fh \o write_sfen_bin_bytes(c_sfen[1], c_result)
    /\ c_nrec' = c_nrec + 1
    /\ UNCHANGED <<c_board, c_data, c_sfen, c_result>>

(***************************************************************************)
(*                   THE GAME SESSION: play_game                           *)
(*                                                                         *)
(* The board of a session is what play_game consults of it: the side to    *)
(* move, the full-move number, whether the side to move is in check, and   *)
(* over: "*" while the game goes on, else board.result(claim_draw=True).   *)
(* A move is what play_game consults of it: whether it captures.  line     *)
(* tells what the game can do from the board: anything ("open"), or only   *)
(* the quiet continuation of a steady line (see LineBoard), in which the   *)
(* model follows a game for the many plies an adjudication needs.          *)
(***************************************************************************)
GameBoard(turn, fullmove_number, check, over) ==
    [turn |-> turn, fullmove_number |-> fullmove_number, check |-> check,
     over |-> over, line |-> "open"]

\* A board of a steady line: a stretch of a game in which every move is
\* quiet, nobody is in check and the game does not end, and the engine's
\* scores stay either decisive ("decided") or near zero ("level").
LineBoard(turn, fullmove_number, line) ==
    [GameBoard(turn, fullmove_number, FALSE, "*") EXCEPT !.line = line]

\* board.is_game_over(claim_draw=True)
is_game_over(board) == board.over # "*"

\* board.is_check(), board.is_capture(move)
is_check(board) == board.check
is_capture(board, move) == move.capture

\* is_quiet without the test for check
is_quiet_capture_only(board, move) == ~is_capture(board, move)

\* lines 225-228
is_quiet(board, move) ==
    IF is_check(board) THEN FALSE ELSE ~is_capture(board, move)

\* board.push(move) with the full-move number left as it is
PushChoicesSameMove(board) ==
    LET n == board.fullmove_number
    IN  IF board.line # "open" THEN {LineBoard(~board.turn, n, board.line)}
        ELSE {GameBoard(~board.turn, n, c, o) :
                 c \in BOOLEAN, o \in {"*", "1/2-1/2"}}
             \cup {GameBoard(~board.turn, n, TRUE,
                             IF board.turn = WHITE THEN "1-0" ELSE "0-1")}

\* The boards board.push(move) can leave: the other side is to move, the
\* full-move number grows after Black's move, the side to move may be in
\* check, and the game may be over: drawn, or won by the side that moved
\* when it gave check.
PushChoices(board) ==
    LET n == IF board.turn = BLACK THEN board.fullmove_number + 1
             ELSE board.fullmove_number
    IN  IF board.line # "open" THEN {LineBoard(~board.turn, n, board.line)}
        ELSE {GameBoard(~board.turn, n, c, o) :
                 c \in BOOLEAN, o \in {"*", "1/2-1/2"}}
             \cup {GameBoard(~board.turn, n, TRUE,
                             IF board.turn = WHITE THEN "1-0" ELSE "0-1")}

\* len(list(board.legal_moves)) (line 204): none after a mate, none or
\* some in a drawn game (stalemate, or a draw that is claimed), one or
\* more otherwise.
LegalCounts(board) ==
    IF board.over \in {"1-0", "0-1"} THEN {0}
    ELSE IF board.over = "1/2-1/2" THEN {0, 1, 20}
    ELSE {1, 20}

\* The board of setup_board (lines 214-222): the start of a game.
setup_board == GameBoard(WHITE, 1, FALSE, "*")

\* The boards play_random_moves works on when it has g_random iterations
\* left (lines 232-233): the board of setup_board, and boards that earlier
\* random moves have led to without ending the game: at the ply limit, at
\* the start of a level line before MIN_DRAW_PLY, and in a decided line.
OpeningBoards ==
    {setup_board,
     GameBoard(WHITE, MAX_PLY \div 2, FALSE, "*"),
     GameBoard(BLACK, MAX_PLY \div 2, FALSE, "*"),
     LineBoard(WHITE, MIN_DRAW_PLY \div 2, "level"),
     LineBoard(WHITE, 1, "decided")}

\* the largest value of a 16-bit signed field
Int16Max == 32767

\* args.eval_limit relative scores an engine reports: << >> is a mate
\* score, whose score() is None.
GameScoreChoices == {<<0>>, <<300>>, <<0 - RESIGN_SCORE>>,
                     <<eval_limit + 1>>, <<Int16Max + 1>>, << >>}

\* The same for gennnuedata.py
GameScoreChoices_nnue == {<<0>>, <<300>>, <<0 - RESIGN_SCORE>>,
                          <<eval_limit_nnue + 1>>, <<Int16Max + 1>>, << >>}

\* What engine.play returns (line 266): a move, and a score or none.
ReplyChoices ==
    {[has_score |-> FALSE, score |-> << >>, move |-> [capture |-> c]] :
        c \in BOOLEAN}
    \cup {[has_score |-> TRUE, score |-> s, move |-> [capture |-> c]] :
        s \in GameScoreChoices, c \in BOOLEAN}

\* What engine.play returns in gennnuedata.py (lines 78-80), which never
\* asks whether the move captures.
ReplyChoices_nnue ==
    {[has_score |-> FALSE, score |-> << >>, move |-> [capture |-> FALSE]]}
    \cup {[has_score |-> TRUE, score |-> s, move |-> [capture |-> FALSE]] :
        s \in GameScoreChoices_nnue}

\* The two generators, and what differs between their play_game: the
\* evaluation limit, the draw adjudication, and the quiet filter and the
\* resign adjudication that only gensfen.py has.
Scripts == {"gensfen", "gennnuedata"}
\* an evaluation limit no score reaches
EvalLimitNone(script) == 65535
EvalLimit(script) ==
    IF script = "gensfen" THEN eval_limit ELSE eval_limit_nnue
DrawScore(script) ==
    IF script = "gensfen" THEN DRAW_SCORE ELSE DRAW_SCORE_nnue
DrawCount(script) ==
    IF script = "gensfen" THEN DRAW_COUNT ELSE DRAW_COUNT_nnue

\* What the engine answers on a board: anything in an open game; quiet
\* moves with decisive scores of either sign in a decided line; quiet
\* moves with scores at and above the draw score in a level line.
RepliesAt(script, board) ==
    IF board.line = "decided"
    THEN {[has_score |-> TRUE, score |-> <<s>>, move |-> [capture |-> FALSE]] :
             s \in {RESIGN_SCORE, 0 - RESIGN_SCORE}}
    ELSE IF board.line = "level"
    THEN {[has_score |-> TRUE, score |-> <<s>>, move |-> [capture |-> FALSE]] :
             s \in {0, DrawScore(script) + 1}}
    ELSE IF script = "gensfen" THEN ReplyChoices
    ELSE ReplyChoices_nnue

\* The searches the model follows a game for
SearchBudget(board) == IF board.line = "open" THEN MaxPlies ELSE MaxLinePlies

\* args.random_plies, less the random moves played before the model takes
\* up the game
RandomPliesChoices == 0 .. MaxRandomPlies

\* pos_left of a call of play_game
PosLeftChoices == {1, 2}

\* result.info['score'].white().score() of a centipawn score
white_score(board, relative) ==
    IF board.turn = WHITE THEN relative ELSE 0 - relative

\* the final classification left out: result_val is kept as it is
result_of_kept(over, result_val) == result_val

\* lines 328-335
result_of(over, result_val) ==
    IF over = "1-0" THEN 1
    ELSE IF over = "0-1" THEN 0 - 1
    ELSE IF over = "1/2-1/2" THEN 0
    ELSE result_val

\* str(n) of an integer: its decimal digits, after a minus sign if n < 0
DigitChars == <<"0", "1", "2", "3", "4", "5", "6", "7", "8", "9">>
RECURSIVE Digits(_)
Digits(n) ==
    IF n < 10 THEN <<DigitChars[n + 1]>>
    ELSE Append(Digits(n \div 10), DigitChars[(n % 10) + 1])
str(n) == IF n < 0 THEN <<"-">> \o Digits(0 - n) ELSE Digits(n)

\* lines 187-196 (and write_position of gennnuedata.py, lines 24-34): the
\* lines of text written for the score, the ply and the result
write_sfen_plain_lines(sfen, result) ==
    [score |-> <<"score", str(pov_score_of(sfen))>>,
     ply |-> <<"ply", str(sfen.ply)>>,
     result |-> <<"result", str(pov_result_of(sfen, result))>>]

\* lines 172-183: the bytes written for the score, the ply and the result
write_sfen_bin_fields(sfen, result) ==
    [score |-> LE16(pov_score_of(sfen)),
     ply |-> LE16(sfen.ply),
     result |-> LE8(pov_result_of(sfen, result))]

\* What write_sfen_bin / write_sfen_plain store of a record (lines 170-198)
written_record(sfen, result) ==
    [fen |-> sfen.fen, move |-> sfen.move, score |-> pov_score_of(sfen),
     ply |-> sfen.ply, result |-> pov_result_of(sfen, result)]

GameIdle ==
    /\ g_script = "gensfen"
    /\ g_pc = "idle"
    /\ g_board = << >>
    /\ g_engine = "none"
    /\ g_reply = << >>
    /\ g_positions = << >>
    /\ g_resign_count = 0
    /\ g_draw_count = 0
    /\ g_result_val = 0
    /\ g_pos_left = 0
    /\ g_fh = << >>
    /\ g_ret = << >>
    /\ g_nsearch = 0
    /\ g_random = 0
    /\ g_last = "none"

\* play_game(fh, pos_left, args) is called.
GameInit ==
    /\ g_script \in Scripts
    /\ g_pc = "start"
    /\ g_board = << >>
    /\ g_engine = "none"
    /\ g_reply = << >>
    /\ g_positions = << >>
    /\ g_resign_count = 0
    /\ g_draw_count = 0
    /\ g_result_val = 0
    /\ g_pos_left \in PosLeftChoices
    /\ g_fh = << >>
    /\ g_ret = << >>
    /\ g_nsearch = 0
    /\ g_random \in RandomPliesChoices
    /\ g_last = "none"

\* lines 232-233: the board is set up and play_random_moves is entered.
GameSetup ==
    /\ g_pc = "start"
    /\ g_board' \in OpeningBoards
    /\ g_pc' = "opening"
    /\ UNCHANGED <<g_engine, g_reply, g_positions, g_resign_count,
                   g_draw_count, g_result_val, g_pos_left, g_fh, g_ret,
                   g_nsearch, g_random, g_last>>

\* play_random_moves without the break of lines 210-211
play_random_moves_left_nobreak(board, left) == left - 1

\* lines 202 and 210-211: the iterations left after a move led to board
play_random_moves_left(board, left) ==
    IF is_game_over(board) THEN 0 ELSE left - 1

\* lines 202-211: one iteration of play_random_moves. A move is selected
\* from the list of legal moves and pushed; selecting from an empty list
\* raises IndexError.
RandomMove ==
    /\ g_pc = "opening"
    /\ g_random > 0
    /\ \E n \in LegalCounts(g_board) :
         \E idx \in (IF n > 1 THEN 0 .. n - 1 ELSE {0}) :
            IF idx < n
            THEN /\ g_board' \in PushChoices(g_board)
                 /\ g_random' = play_random_moves_left(g_board', g_random)
                 /\ UNCHANGED <<g_pc, g_last>>
            ELSE /\ g_pc' = "raised"
                 /\ g_last' = "indexerror"
                 /\ UNCHANGED <<g_board, g_random>>
    /\ UNCHANGED <<g_engine, g_reply, g_positions, g_resign_count,
                   g_draw_count, g_result_val, g_pos_left, g_fh, g_ret,
                   g_nsearch>>

\* lines 236-262: after the opening, a game that is over is abandoned;
\* otherwise the engine is started and the counters are set.
GameOpened ==
    /\ g_pc = "opening"
    /\ g_random = 0
    /\ IF is_game_over(g_board)
       THEN /\ g_ret' = <<g_pos_left>>
            /\ g_pc' = "returned"
            /\ UNCHANGED g_engine
       ELSE /\ g_engine' = "running"
            /\ g_pc' = "loop"
            /\ UNCHANGED g_ret
    /\ g_resign_count' = 0
    /\ g_draw_count' = 0
    /\ g_positions' = << >>
    /\ g_result_val' = 0
    /\ UNCHANGED <<g_board, g_reply, g_pos_left, g_fh, g_nsearch, g_random,
                   g_last>>

\* lines 264-266: the game is not over; the engine searches and answers.
EnginePlay ==
    /\ g_pc = "loop"
    /\ ~is_game_over(g_board)
    /\ g_nsearch < SearchBudget(g_board)
    /\ \E r \in RepliesAt(g_script, g_board) : g_reply' = <<r>>
    /\ g_nsearch' = g_nsearch + 1
    /\ g_pc' = "handle"
    /\ UNCHANGED <<g_board, g_engine, g_positions, g_resign_count,
                   g_draw_count, g_result_val, g_pos_left, g_fh, g_ret,
                   g_random, g_last>>

\* line 264: the game is over; the loop is left.
GameLoopExit ==
    /\ g_pc = "loop"
    /\ is_game_over(g_board)
    /\ g_pc' = "quit"
    /\ UNCHANGED <<g_board, g_engine, g_reply, g_positions, g_resign_count,
                   g_draw_count, g_result_val, g_pos_left, g_fh, g_ret,
                   g_nsearch, g_random, g_last>>

\* a skipped ply that sets the counters to 0
HandleSkipResets(kind) ==
    /\ g_board' \in PushChoices(g_board)
    /\ g_pc' = "loop"
    /\ g_last' = kind
    /\ g_resign_count' = 0
    /\ g_draw_count' = 0
    /\ UNCHANGED <<g_positions, g_result_val>>

\* lines 269-271 and 274-276: board.push(result.move); continue
HandleSkip(kind) ==
    /\ g_board' \in PushChoices(g_board)
    /\ g_pc' = "loop"
    /\ g_last' = kind
    /\ UNCHANGED <<g_positions, g_resign_count, g_draw_count, g_result_val>>

\* line 279 with a mate score: score() is None and abs(None) raises
HandleRaise ==
    /\ g_pc' = "raised"
    /\ g_last' = "raised"
    /\ UNCHANGED <<g_board, g_positions, g_resign_count, g_draw_count,
                   g_result_val>>

\* lines 279-284
HandleCutoff(score) ==
    /\ g_result_val' = (IF white_score(g_board, score) > 0 THEN 1 ELSE 0 - 1)
    /\ g_pc' = "quit"
    /\ g_last' = "cutoff"
    /\ UNCHANGED <<g_board, g_positions, g_resign_count, g_draw_count>>

\* the draw counter counted on every recorded ply
draw_count_after_any_ply(script, ply, score, draw_count) ==
    IF Abs(score) <= DrawScore(script) THEN draw_count + 1 ELSE 0

\* lines 313-317: draw_count after a recorded ply that neither the ply
\* limit nor the resign condition stopped
draw_count_after(script, ply, score, draw_count) ==
    IF ply > MIN_DRAW_PLY
    THEN (IF Abs(score) <= DrawScore(script) THEN draw_count + 1 ELSE 0)
    ELSE draw_count

\* lines 286-323: the ply is recorded, then the ply limit, the resign
\* condition and the draw adjudication are tested in this order, and if
\* none stops the game the move is applied. (gennnuedata.py lines 95-120:
\* the same without the resign condition.)
HandleRecord(reply, score) ==
    LET ply == IF g_board.turn = WHITE THEN g_board.fullmove_number * 2
               ELSE g_board.fullmove_number * 2 + 1
        sfen == [fen |-> g_board, move |-> reply.move,
                 score |-> [relative |-> score, turn |-> g_board.turn],
                 ply |-> ply]
        resign == IF g_script # "gensfen" THEN g_resign_count
                  ELSE IF Abs(score) >= RESIGN_SCORE THEN g_resign_count + 1
                  ELSE 0
        draw == draw_count_after(g_script, ply, score, g_draw_count)
    IN  /\ g_positions' = Append(g_positions, sfen)
        /\ IF ply > MAX_PLY
           THEN /\ g_result_val' = 0
                /\ g_pc' = "quit"
                /\ g_last' = "plylimit"
                /\ UNCHANGED <<g_board, g_resign_count, g_draw_count>>
           ELSE IF g_script = "gensfen" /\ resign >= RESIGN_COUNT
           THEN /\ g_resign_count' = resign
                /\ g_result_val' = (IF score > 0 THEN 1 ELSE 0 - 1)
                /\ g_pc' = "quit"
                /\ g_last' = "resign"
                /\ UNCHANGED <<g_board, g_draw_count>>
           ELSE IF ply > MIN_DRAW_PLY /\ draw >= DrawCount(g_script)
           THEN /\ g_resign_count' = resign
                /\ g_draw_count' = draw
                /\ g_result_val' = 0
                /\ g_pc' = "quit"
                /\ g_last' = "draw"
                /\ UNCHANGED g_board
           ELSE /\ g_resign_count' = resign
                /\ g_draw_count' = draw
                /\ g_board' \in PushChoices(g_board)
                /\ g_pc' = "loop"
                /\ g_last' = "recorded"
                /\ UNCHANGED g_result_val

\* lines 268-323: the body of the loop from the engine's answer on
\* (gennnuedata.py lines 82-120: the same without the quiet filter)
GameHandle ==
    /\ g_pc = "handle"
    /\ LET reply == g_reply[1]
       IN  IF ~reply.has_score THEN HandleSkip("noscore")
           ELSE IF g_script = "gensfen" /\ ~is_quiet(g_board, reply.move)
           THEN HandleSkip("nonquiet")
           ELSE IF reply.score = << >> THEN HandleRaise
           ELSE IF Abs(reply.score[1]) > EvalLimit(g_script)
           THEN HandleCutoff(reply.score[1])
           ELSE HandleRecord(reply, reply.score[1])
    /\ UNCHANGED <<g_engine, g_reply, g_pos_left, g_fh, g_ret, g_nsearch,
                   g_random>>

\* lines 325-335: engine.quit(), and the result of a game that is over
GameQuit ==
    /\ g_pc = "quit"
    /\ g_engine' = "quit"
    /\ g_result_val' = result_of(g_board.over, g_result_val)
    /\ g_pc' = "write"
    /\ UNCHANGED <<g_board, g_reply, g_positions, g_resign_count,
                   g_draw_count, g_pos_left, g_fh, g_ret, g_nsearch,
                   g_random, g_last>>

\* lines 337-348: the records are written until pos_left is 0, and
\* pos_left is returned
GameWrite ==
    /\ g_pc = "write"
    /\ LET n == WriteIterations(Len(g_positions), g_pos_left)
       IN  /\ g_fh' = g_fh \o [i \in 1 .. n |->
                          written_record(g_positions[i], g_result_val)]
           /\ g_pos_left' = g_pos_left - n
           /\ g_ret' = <<g_pos_left - n>>
    /\ g_pc' = "returned"
    /\ UNCHANGED <<g_board, g_engine, g_reply, g_positions, g_resign_count,
                   g_draw_count, g_result_val, g_nsearch, g_random, g_last>>

(***************************************************************************)
(* Quantities the coordinator's properties are stated in.                  *)
(***************************************************************************)
RECURSIVE SumUpTo(_, _)
\* f[0] + ... + f[n-1]
SumUpTo(f, n) == IF n = 0 THEN 0 ELSE f[n - 1] + SumUpTo(f, n - 1)

RECURSIVE SumChunks(_, _)
\* the records of the first n chunks of a file
SumChunks(chunks, n) ==
    IF n = 0 THEN 0 ELSE chunks[n].nrec + SumChunks(chunks, n - 1)

ShardRecords == SumUpTo(shard, nthreads)
OutputRecords == SumChunks(output, Len(output))
AllExited == \A w \in Workers : w_pc[w] = "exited"

(***************************************************************************)
(* C1.  Work conservation of the output: in every state the records in the *)
(* worker shards number at most npositions; when the parent merges (all    *)
(* workers joined, no shard copied yet) they number exactly npositions,    *)
(* and once every shard has been copied the final output holds exactly     *)
(* npositions records.                                                     *)
(***************************************************************************)
C1_WorkConservation ==
    /\ ShardRecords <= npositions
    /\ OutputRecords <= npositions
    /\ (m_pc = "merge_open" \/ (m_pc = "copy" /\ m_i = 0))
          => ShardRecords = npositions
    /\ m_pc \in {"remove", "done"} => OutputRecords = npositions

\* A run of two workers and more than one batch has merged its output.
C1_Witness ==
    /\ m_pc = "done"
    /\ nthreads = 2
    /\ npositions = BATCH_SIZE + 1
    /\ OutputRecords = npositions
    /\ output[1].nrec > 0
    /\ output[2].nrec > 0

C3_RequestWorkAtomic ==
    [][\A w \in Workers :
          (w_pc[w] = "release" /\ w_pc'[w] # "release") =>
             /\ finished_work' = req_snap[w][2] + work_todo[w]
             /\ work_todo'[w] = Min(BATCH_SIZE, req_snap[w][1])
             /\ remaining_work' = req_snap[w][1] - work_todo'[w]
             /\ (work_todo'[w] = 0) <=> (req_snap[w][1] = 0)
             /\ request_work_npos_nnue(req_snap[w][1]) = work_todo'[w]
             /\ request_work_npos_gtd(req_snap[w][1]) = work_todo'[w]]_vars

\* One worker holds a whole batch and the other the remainder of the quota.
C3_Witness ==
    /\ nthreads = 2
    /\ \E w, v \in Workers :
          /\ w_pc[w] = "play" /\ work_todo[w] = BATCH_SIZE
          /\ w_pc[v] = "play" /\ work_todo[v] = 1
    /\ remaining_work = 0

(***************************************************************************)
(* C4.  No double allocation under any interleaving: the sum of the        *)
(* batches returned by request_work never exceeds npositions, no batch     *)
(* exceeds BATCH_SIZE, and the sum is npositions whenever remaining_work   *)
(* is 0.                                                                   *)
(***************************************************************************)
C4_NoDoubleAllocation ==
    /\ allocated <= npositions
    /\ \A w \in Workers : work_todo[w] <= BATCH_SIZE /\ npos[w] <= BATCH_SIZE
    /\ remaining_work = 0 => allocated = npositions

\* The quota was handed out to two workers while the parent held the lock
\* in between.
C4_Witness ==
    /\ nthreads = 2
    /\ npositions = BATCH_SIZE + 1
    /\ remaining_work = 0
    /\ allocated = npositions
    /\ \A w \in Workers : work_todo[w] > 0
    /\ position_lock = {MainProc}

(***************************************************************************)
(* The documented layout of a binary record, read back: the bit stream of  *)
(* the position block (bit p of the stream is bit p % 8 of byte p \div 8), *)
(* and the little-endian fields behind it.                                 *)
(***************************************************************************)
\* a bit behind the end of the block reads as 0
BitAt(data, p) ==
    IF p \div 8 < Len(data) THEN BitOf(data[(p \div 8) + 1], p % 8) ELSE 0

RECURSIVE ReadBits(_, _, _)
\* the n-bit value stored least-significant bit first at stream position p
ReadBits(data, p, n) ==
    IF n = 0 THEN 0 ELSE BitAt(data, p) + 2 * ReadBits(data, p + 1, n - 1)

\* The piece codes of the layout table.
PieceCode(piece_type) ==
    CASE piece_type = PAWN -> 1
      [] piece_type = KNIGHT -> 3
      [] piece_type = BISHOP -> 5
      [] piece_type = ROOK -> 7
      [] piece_type = QUEEN -> 9

\* 0 for a code the table does not hold
PieceOfCode(code) ==
    IF \E t \in {PAWN, KNIGHT, BISHOP, ROOK, QUEEN} : PieceCode(t) = code
    THEN CHOOSE t \in {PAWN, KNIGHT, BISHOP, ROOK, QUEEN} : PieceCode(t) = code
    ELSE 0

\* the n bits of v, least-significant first
BitsOf(v, n) == [i \in 1 .. n |-> BitOf(v, i - 1)]

\* what the layout puts in the stream for one square
SquareBits(board, sq) ==
    IF board.pieces[sq] = << >> THEN <<0>>
    ELSE IF board.pieces[sq][1] = KING THEN << >>
    ELSE BitsOf(PieceCode(board.pieces[sq][1]), 4)
           \o <<IF board.pieces[sq][2] = WHITE THEN 0 ELSE 1>>

\* rank r (0 is rank 1) from file a to file h
RankBits(board, r) ==
    SquareBits(board, r * 8) \o SquareBits(board, r * 8 + 1)
      \o SquareBits(board, r * 8 + 2) \o SquareBits(board, r * 8 + 3)
      \o SquareBits(board, r * 8 + 4) \o SquareBits(board, r * 8 + 5)
      \o SquareBits(board, r * 8 + 6) \o SquareBits(board, r * 8 + 7)

\* rank 8 first, rank 1 last
BoardBits(board) ==
    RankBits(board, 7) \o RankBits(board, 6) \o RankBits(board, 5)
      \o RankBits(board, 4) \o RankBits(board, 3) \o RankBits(board, 2)
      \o RankBits(board, 1) \o RankBits(board, 0)

\* The stream from its first bit to the end of the en-passant field.
LayoutBits(board) ==
    <<IF board.turn = WHITE THEN 0 ELSE 1>>
      \o BitsOf(CHOOSE sq \in 0 .. 63 : board.pieces[sq] = <<KING, WHITE>>, 6)
      \o BitsOf(CHOOSE sq \in 0 .. 63 : board.pieces[sq] = <<KING, BLACK>>, 6)
      \o BoardBits(board)
      \o <<BoolInt(board.castling.wk), BoolInt(board.castling.wq),
           BoolInt(board.castling.bk), BoolInt(board.castling.bq)>>
      \o (IF board.ep_square = << >> THEN <<0>>
          ELSE <<1>> \o BitsOf(board.ep_square[1], 6))

\* the first n bits of the stream of a position block
StreamPrefix(data, n) == [i \in 1 .. n |-> BitAt(data, i - 1)]

\* <<the pieces read so far with that of square sq appended, the stream
\* position behind it>>
DecodeSquare(data, p, sq, wk, bk, acc) ==
    IF sq = wk THEN <<Append(acc, <<KING, WHITE>>), p>>
    ELSE IF sq = bk THEN <<Append(acc, <<KING, BLACK>>), p>>
    ELSE IF BitAt(data, p) = 0 THEN <<Append(acc, << >>), p + 1>>
    ELSE <<Append(acc, <<PieceOfCode(ReadBits(data, p, 4)),
                         BitAt(data, p + 4) = 0>>), p + 5>>

RECURSIVE DecodeFiles(_, _, _, _, _, _, _)
DecodeFiles(data, p, r, f, wk, bk, acc) ==
    IF f > 7 THEN <<acc, p>>
    ELSE LET e == DecodeSquare(data, p, r * 8 + f, wk, bk, acc)
         IN  IF Strict(e)
             THEN DecodeFiles(data, e[2], r, f + 1, wk, bk, e[1])
             ELSE e

RECURSIVE DecodeRanks(_, _, _, _, _, _)
\* <<the pieces in stream order, the stream position behind the squares>>
DecodeRanks(data, p, r, wk, bk, acc) ==
    IF r < 0 THEN <<acc, p>>
    ELSE LET e == DecodeFiles(data, p, r, 0, wk, bk, acc)
         IN  IF Strict(e)
             THEN DecodeRanks(data, e[2], r - 1, wk, bk, e[1])
             ELSE e

\* The board a 32-byte position block stands for.
DecodePosition(data) ==
    LET wk == ReadBits(data, 1, 6)
        bk == ReadBits(data, 7, 6)
        sqs == DecodeRanks(data, 13, 7, wk, bk, << >>)
        p == sqs[2]
        ep == BitAt(data, p + 4)
        q == IF ep = 1 THEN p + 11 ELSE p + 5
    IN  [pieces |-> [sq \in 0 .. 63 |->
                        sqs[1][(7 - (sq \div 8)) * 8 + (sq % 8) + 1]],
         turn |-> (BitAt(data, 0) = 0),
         castling |-> [wk |-> BitAt(data, p) = 1,
                       wq |-> BitAt(data, p + 1) = 1,
                       bk |-> BitAt(data, p + 2) = 1,
                       bq |-> BitAt(data, p + 3) = 1],
         ep_square |-> IF ep = 1 THEN <<ReadBits(data, p + 5, 6)>> ELSE << >>,
         halfmove_clock |-> ReadBits(data, q, 6) + 64 * BitAt(data, q + 22),
         fullmove_number |-> ReadBits(data, q + 6, 8)
                               + 256 * ReadBits(data, q + 14, 8)]

\* 16-bit and 8-bit little-endian fields, signed and unsigned
Unsigned16(lo, hi) == lo + 256 * hi
Signed16(lo, hi) ==
    IF lo + 256 * hi >= 32768 THEN lo + 256 * hi - 65536 ELSE lo + 256 * hi
Signed8(b) == IF b >= 128 THEN b - 256 ELSE b

\* The move a 16-bit move field stands for: a castling move is stored with
\* the rook's square and stands for the king's move of two files.
DecodeMove(m) ==
    LET to == m % 64
        from == (m \div 64) % 64
        flag == m \div 16384
    IN  [from_square |-> from,
         to_square |-> IF flag = 3
                       THEN (IF to % 8 > from % 8 THEN from + 2 ELSE from - 2)
                       ELSE to,
         promotion |-> IF flag = 1 THEN <<((m \div 4096) % 4) + 2>>
                       ELSE << >>]

\* Bytes a .. b of a file, and its k-th 40-byte record (k = 1, 2, ..).
Slice(f, a, b) == [i \in 1 .. (b - a + 1) |-> f[a + i - 1]]
RecordAt(f, k) == Slice(f, 40 * (k - 1) + 1, 40 * k)

\* The fields a 40-byte record stands for.
DecodeRecord(rec) ==
    [fen |-> DecodePosition(Slice(rec, 1, 32)),
     score |-> Signed16(rec[33], rec[34]),
     move |-> DecodeMove(Unsigned16(rec[35], rec[36])),
     ply |-> Unsigned16(rec[37], rec[38]),
     result |-> Signed8(rec[39])]

\* The fields of the record play_game made and the result it was written
\* with, as a PositionRecord holds them.
RecordFields(sfen, result) ==
    [fen |-> sfen.fen,
     score |-> sfen.score.relative,
     move |-> sfen.move,
     ply |-> sfen.ply,
     result |-> IF sfen.fen.turn = WHITE THEN result ELSE 0 - result]

(***************************************************************************)
(* C5.  Every binary record written by write_sfen_bin occupies exactly 40  *)
(* bytes: the 32-byte position block, then score (2), move (2), ply (2),   *)
(* result (1) and the padding byte 0xFF (1); a binary file of k records is *)
(* exactly 40*k bytes long.                                                *)
(***************************************************************************)
C5_RecordSize ==
    /\ Len(c_fh) = 40 * c_nrec
    /\ \A k \in 1 .. c_nrec :
          /\ Slice(RecordAt(c_fh, k), 1, 32) = c_data
          /\ RecordAt(c_fh, k)[40] = 255
          /\ \A i \in 1 .. 40 : RecordAt(c_fh, k)[i] \in 0 .. 255

\* Two records were written: 80 bytes.
C5_Witness ==
    /\ c_nrec = 2
    /\ Len(c_fh) = 80

\* C5 as the specification words it: 44 bytes a record, 88 bytes for two.
C5_FortyFourBytes == Len(c_fh) = 44 * c_nrec

(***************************************************************************)
(* C6.  Codec round-trip: reading a written record back by the documented  *)
(* layout gives the side to move, both king squares, the piece placement,  *)
(* the four castling rights, the en-passant square, the half-move clock,   *)
(* the full-move number, the score, the move, the ply and the result that  *)
(* were encoded.                                                           *)
(***************************************************************************)
C6_RoundTrip ==
    \A k \in 1 .. c_nrec :
        DecodeRecord(RecordAt(c_fh, k)) = RecordFields(c_sfen[1], c_result)

\* A record of Black to move with an en-passant square, a negative score
\* and a game White lost was written and read back.
C6_Witness ==
    /\ c_nrec >= 1
    /\ c_sfen[1].fen.turn = BLACK
    /\ c_sfen[1].fen.ep_square = <<20>>
    /\ c_sfen[1].move = Move(27, 20, << >>)
    /\ c_sfen[1].score.relative < 0
    /\ c_result = 0 - 1
    /\ DecodeRecord(RecordAt(c_fh, 1)).result = 1
    /\ DecodeRecord(RecordAt(c_fh, 1)).fen.ep_square = <<20>>

(***************************************************************************)
(* C7.  Bit-exact board block: the stream written by encode_position is,   *)
(* least-significant bit first, the side-to-move bit (0 for White), the    *)
(* 6-bit white king square, the 6-bit black king square, then per square   *)
(* in the order a8..h8, .., a1..h1 nothing for a king, one 0 bit for an    *)
(* empty square, or the 4-bit piece code (1, 3, 5, 7, 9) and a colour bit  *)
(* (0 white, 1 black), then the four castling bits (white-kingside,        *)
(* white-queenside, black-kingside, black-queenside) and the en-passant    *)
(* flag with the 6-bit square when set; the initial position encodes to    *)
(* the bytes computed by hand from the layout.                             *)
(***************************************************************************)
InitialBoard == BoardOf(InitialPieces, WHITE, AllCastling, << >>, <<0, 1>>)

InitialPositionBytes ==
    <<8, 254, 206, 154, 235, 188, 49, 198, 24, 99, 140, 0, 0, 0, 0, 33,
      132, 16, 66, 8, 103, 148, 84, 198, 121, 64, 0, 0, 0, 0, 0, 0>>

C7_BoardBlock ==
    c_data # << >> =>
        /\ Len(c_data) = 32
        /\ StreamPrefix(c_data, Len(LayoutBits(c_board))) = LayoutBits(c_board)
        /\ c_board = InitialBoard => c_data = InitialPositionBytes

\* A position with pieces of both colours, castling rights of both sides
\* and Black to move was encoded.
C7_Witness ==
    /\ c_data # << >>
    /\ c_board.pieces = CastlePieces
    /\ c_board.turn = BLACK
    /\ c_board.castling = Castling(FALSE, TRUE, FALSE, FALSE)
    /\ BitAt(c_data, 0) = 1
    /\ Len(LayoutBits(c_board)) = 112

(***************************************************************************)
(* C8.  Move encoding: the 16-bit move field holds the destination square  *)
(* in bits 0-5, the origin square in bits 6-11, the promotion piece type   *)
(* minus 2 in bits 12-13 (0 unless the move promotes) and in bits 14-15    *)
(* one flag value: 0 normal, 1 promotion, 2 en passant, 3 castling; for a  *)
(* castling move the destination is the rook's original square (7, 0, 63,  *)
(* 56) and not the king's landing square.                                  *)
(***************************************************************************)
\* The kind of a legal move, from the board alone.
MoveIsCastle(board, move) ==
    /\ board.pieces[move.from_square][1] = KING
    /\ Abs((move.to_square % 8) - (move.from_square % 8)) = 2

MoveIsEnPassant(board, move) ==
    /\ board.pieces[move.from_square][1] = PAWN
    /\ (move.to_square % 8) # (move.from_square % 8)
    /\ board.pieces[move.to_square] = << >>

MoveFlag(board, move) ==
    IF MoveIsCastle(board, move) THEN 3
    ELSE IF MoveIsEnPassant(board, move) THEN 2
    ELSE IF move.promotion # << >> THEN 1
    ELSE 0

RookSquare(board, move) ==
    IF board.turn = WHITE
    THEN (IF move.to_square > move.from_square THEN 7 ELSE 0)
    ELSE (IF move.to_square > move.from_square THEN 63 ELSE 56)

C8_MoveEncoding ==
    \A k \in 1 .. c_nrec :
        LET m == Unsigned16(RecordAt(c_fh, k)[35], RecordAt(c_fh, k)[36])
            board == c_sfen[1].fen
            move == c_sfen[1].move
        IN  /\ m = encode_move(board, move)
            /\ m \in 0 .. 65535
            /\ m % 64 = (IF MoveIsCastle(board, move)
                         THEN RookSquare(board, move) ELSE move.to_square)
            /\ (m \div 64) % 64 = move.from_square
            /\ (m \div 4096) % 4 = (IF move.promotion # << >>
                                    THEN move.promotion[1] - 2 ELSE 0)
            /\ m \div 16384 = MoveFlag(board, move)

\* Black castled queenside: the king's move e8-c8 is stored with
\* destination a8.
C8_Witness ==
    /\ c_nrec >= 1
    /\ c_sfen[1].fen.turn = BLACK
    /\ c_sfen[1].move = Move(60, 58, << >>)
    /\ Unsigned16(c_fh[35], c_fh[36]) = 3 * 16384 + 60 * 64 + 56

(***************************************************************************)
(* C9.  Counter fields: behind the en-passant field the stream holds the   *)
(* low 6 bits of the half-move clock, the low 8 bits of the full-move      *)
(* number, the high 8 bits of the full-move number and, as the last bit    *)
(* written, bit 6 of the half-move clock; the rest of the block is 0; for  *)
(* a half-move clock in 0..127 and a full-move number in 0..65535,         *)
(* low6 + 64*highbit and low8 + 256*high8 are the original values.         *)
(***************************************************************************)
C9_CounterFields ==
    c_data # << >> =>
        LET p == Len(LayoutBits(c_board))
            low6 == ReadBits(c_data, p, 6)
            low8 == ReadBits(c_data, p + 6, 8)
            high8 == ReadBits(c_data, p + 14, 8)
            highbit == BitAt(c_data, p + 22)
        IN  /\ low6 = c_board.halfmove_clock % 64
            /\ low8 = c_board.fullmove_number % 256
            /\ high8 = (c_board.fullmove_number \div 256) % 256
            /\ highbit = (c_board.halfmove_clock \div 64) % 2
            /\ encode_position_cursor(c_board)[2] = p + 23
            /\ \A q \in (p + 23) .. 255 : BitAt(c_data, q) = 0
            /\ c_board.halfmove_clock \in 0 .. 127
                  => low6 + 64 * highbit = c_board.halfmove_clock
            /\ c_board.fullmove_number \in 0 .. 65535
                  => low8 + 256 * high8 = c_board.fullmove_number

\* The largest counters were encoded: half-move clock 127, full-move
\* number 65535.
C9_Witness ==
    /\ c_data # << >>
    /\ c_board.halfmove_clock = 127
    /\ c_board.fullmove_number = 65535
    /\ BitAt(c_data, Len(LayoutBits(c_board)) + 22) = 1
    /\ ReadBits(c_data, Len(LayoutBits(c_board)) + 14, 8) = 255

(***************************************************************************)
(* C10.  Quiet-move filter: a ply at which the side to move is in check,   *)
(* or at which the engine's move is a capture, is never buffered and never *)
(* written as a record; at such a ply the engine's move is applied to the  *)
(* board and the game goes on with the next turn of the loop.              *)
(***************************************************************************)
C10_NoNonQuietRecord ==
    g_script = "gensfen" =>
    /\ \A i \in 1 .. Len(g_positions) :
          ~g_positions[i].fen.check /\ ~g_positions[i].move.capture
    /\ \A i \in 1 .. Len(g_fh) :
          ~g_fh[i].fen.check /\ ~g_fh[i].move.capture

C10_QuietFilter ==
    /\ []C10_NoNonQuietRecord
    /\ [][(g_script = "gensfen" /\ g_pc = "handle"
              /\ (g_board.check \/ g_reply[1].move.capture))
            => /\ g_positions' = g_positions
               /\ g_fh' = g_fh
               /\ g_board' \in PushChoices(g_board)
               /\ g_pc' = "loop"
               /\ g_engine' = "running"]_vars

\* After a recorded ply, a scored ply was skipped as not quiet and the
\* loop goes on.
C10_Witness ==
    /\ g_script = "gensfen"
    /\ g_pc = "loop"
    /\ g_last = "nonquiet"
    /\ g_reply[1].has_score
    /\ Len(g_positions) = 1
    /\ g_board.turn # g_positions[1].fen.turn
    /\ g_nsearch = 3
    /\ g_engine = "running"

(***************************************************************************)
(* C11.  Evaluation-limit cutoff: whenever the engine answers with a score *)
(* whose absolute value exceeds eval_limit, the session stops at once: the *)
(* position is not recorded, no move is applied and no further search is   *)
(* issued, and the result is 1 when the score seen from White is positive  *)
(* and -1 otherwise.                                                       *)
(***************************************************************************)
ScoreBeyondLimit ==
    /\ g_pc = "handle"
    /\ g_reply[1].has_score
    /\ g_reply[1].score # << >>
    /\ Abs(g_reply[1].score[1]) > EvalLimit(g_script)

C11_EvalLimitCutoff ==
    [][ScoreBeyondLimit =>
          /\ g_pc' = "quit"
          /\ g_board' = g_board
          /\ g_positions' = g_positions
          /\ g_nsearch' = g_nsearch
          /\ g_result_val' =
                (IF white_score(g_board, g_reply[1].score[1]) > 0 THEN 1
                 ELSE 0 - 1)]_vars

\* a ply that is not quiet and whose score is beyond the limit was played
C11_Witness ==
    /\ g_last = "nonquiet"
    /\ g_pc = "loop"
    /\ g_reply[1].score # << >>
    /\ Abs(g_reply[1].score[1]) > EvalLimit(g_script)

(***************************************************************************)
(* C12.  Resign adjudication: when the absolute score is at least          *)
(* RESIGN_SCORE on RESIGN_COUNT consecutive recorded plies, the session    *)
(* stops at the last of them, without applying its move, with the result   *)
(* of the side that is ahead (1 when the score seen from White is          *)
(* positive, -1 otherwise); a recorded ply with a smaller absolute score   *)
(* sets resign_count to 0; and the session never resigns unless the last   *)
(* RESIGN_COUNT recorded plies all had such a score.                       *)
(***************************************************************************)
\* the engine's answer is one play_game records: scored, quiet, not a mate
\* score, within the evaluation limit
RecordedPly ==
    /\ g_pc = "handle"
    /\ g_reply[1].has_score
    /\ g_script = "gensfen" => is_quiet(g_board, g_reply[1].move)
    /\ g_reply[1].score # << >>
    /\ Abs(g_reply[1].score[1]) <= EvalLimit(g_script)

\* the last n records of positions exist and have decisive scores
LastDecisive(positions, n) ==
    /\ Len(positions) >= n
    /\ \A i \in Len(positions) - n + 1 .. Len(positions) :
          Abs(positions[i].score.relative) >= RESIGN_SCORE

C12_ResignAdjudication ==
    [][/\ (g_script = "gensfen" /\ RecordedPly
             /\ Abs(g_reply[1].score[1]) >= RESIGN_SCORE
             /\ LastDecisive(g_positions, RESIGN_COUNT - 1))
          => /\ g_pc' = "quit"
             /\ g_board' = g_board
             /\ g_result_val' =
                   (IF white_score(g_board, g_reply[1].score[1]) > 0 THEN 1
                    ELSE 0 - 1)
       /\ (g_script = "gensfen" /\ RecordedPly
             /\ Abs(g_reply[1].score[1]) < RESIGN_SCORE)
          => g_resign_count' = 0
       /\ (g_pc = "handle" /\ g_last' = "resign")
          => LastDecisive(g_positions', RESIGN_COUNT)]_vars

\* the session resigned with Black to move
C12_Witness ==
    /\ g_last = "resign"
    /\ g_pc = "quit"
    /\ g_board.turn = BLACK
    /\ g_resign_count = RESIGN_COUNT

(***************************************************************************)
(* C13.  Draw adjudication: draw_count changes only on a recorded ply      *)
(* whose ply exceeds MIN_DRAW_PLY; when the absolute score is at most      *)
(* DRAW_SCORE on DRAW_COUNT consecutive such plies, the session stops at   *)
(* the last of them with result 0, its move is not applied and no search   *)
(* follows; and the session is never adjudicated a draw unless the last    *)
(* DRAW_COUNT recorded plies were such plies. (DRAW_SCORE 10, DRAW_COUNT   *)
(* 10 in gensfen.py; 0 and 8 in gennnuedata.py.)                           *)
(***************************************************************************)
\* the last n records of positions exist, lie beyond MIN_DRAW_PLY and have
\* scores within the draw score
LastLevel(script, positions, n) ==
    /\ Len(positions) >= n
    /\ \A i \in Len(positions) - n + 1 .. Len(positions) :
          /\ positions[i].ply > MIN_DRAW_PLY
          /\ Abs(positions[i].score.relative) <= DrawScore(script)

C13_DrawAdjudication ==
    /\ [](g_last = "draw" =>
            /\ g_pc \in {"quit", "write", "returned"}
            /\ g_result_val = 0
            /\ g_board = g_positions[Len(g_positions)].fen)
    /\ [][/\ g_draw_count' # g_draw_count
             => (RecordedPly /\ ply_of(g_board) > MIN_DRAW_PLY)
          /\ (/\ RecordedPly
              /\ ply_of(g_board) > MIN_DRAW_PLY
              /\ Abs(g_reply[1].score[1]) <= DrawScore(g_script)
              /\ LastLevel(g_script, g_positions, DrawCount(g_script) - 1))
             => /\ g_pc' = "quit"
                /\ g_board' = g_board
                /\ g_nsearch' = g_nsearch
                /\ g_result_val' = 0
          /\ (g_pc = "handle" /\ g_last' = "draw")
             => LastLevel(g_script, g_positions', DrawCount(g_script))]_vars

\* a session of gensfen.py was adjudicated a draw and has returned
C13_Witness ==
    /\ g_script = "gensfen"
    /\ g_last = "draw"
    /\ g_pc = "returned"
    /\ g_draw_count = DRAW_COUNT
    /\ Len(g_positions) = DRAW_COUNT + 1
    /\ g_result_val = 0

\* the same for gennnuedata.py, after a score above the draw score
C13_WitnessNnue ==
    /\ g_script = "gennnuedata"
    /\ g_last = "draw"
    /\ g_draw_count = DRAW_COUNT_nnue
    /\ Len(g_positions) > DRAW_COUNT_nnue + 1

(***************************************************************************)
(* C14.  Ply-limit cutoff: when the engine has answered on a position      *)
(* whose ply exceeds MAX_PLY, whatever the answer (quiet or not, with or   *)
(* without a score), the session stops with result 0 and the engine's move *)
(* is not applied to the board.                                            *)
(***************************************************************************)
C14_PlyLimit ==
    [][(g_pc = "handle" /\ ply_of(g_board) > MAX_PLY)
          => /\ g_pc' = "quit"
             /\ g_board' = g_board
             /\ g_result_val' = 0]_vars

\* a move was applied from a position beyond the ply limit, and the engine
\* is asked again
C14_Witness ==
    /\ g_pc = "handle"
    /\ g_last \in {"noscore", "nonquiet"}
    /\ ply_of(g_board) > MAX_PLY + 1

(***************************************************************************)
(* C15.  Result and score of the written records: when play_game has       *)
(* returned, the records it wrote all derive from the one result_val r it  *)
(* had on leaving the loop, r in {-1, 0, 1}: a record of a position with   *)
(* White to move carries r, with Black to move -r; the score written is    *)
(* the score seen by the side to move; and the text written by             *)
(* write_sfen_plain / write_position and the bytes written by              *)
(* write_sfen_bin stand for the same score, ply and result.                *)
(***************************************************************************)
\* the integer a decimal text stands for
DigitValue(c) == CHOOSE v \in 0 .. 9 : DigitChars[v + 1] = c
RECURSIVE NaturalOf(_)
NaturalOf(t) ==
    IF Len(t) = 0 THEN 0
    ELSE 10 * NaturalOf(SubSeq(t, 1, Len(t) - 1)) + DigitValue(t[Len(t)])
IntegerOf(t) ==
    IF t[1] = "-" THEN 0 - NaturalOf(Tail(t)) ELSE NaturalOf(t)

C15_WrittenResult ==
    g_pc = "returned" =>
       /\ g_result_val \in {0 - 1, 0, 1}
       /\ \A i \in 1 .. Len(g_fh) :
             LET sfen == g_positions[i]
                 plain == write_sfen_plain_lines(sfen, g_result_val)
                 bin == write_sfen_bin_fields(sfen, g_result_val)
             IN  /\ g_fh[i].result =
                       (IF sfen.fen.turn = WHITE THEN g_result_val
                        ELSE 0 - g_result_val)
                 /\ g_fh[i].result \in {0 - 1, 0, 1}
                 /\ g_fh[i].score = sfen.score.relative
                 /\ sfen.score.turn = sfen.fen.turn
                 /\ IntegerOf(plain.score[2]) = g_fh[i].score
                 /\ Signed16(bin.score[1], bin.score[2]) = g_fh[i].score
                 /\ IntegerOf(plain.ply[2]) = sfen.ply
                 /\ Unsigned16(bin.ply[1], bin.ply[2]) = sfen.ply
                 /\ IntegerOf(plain.result[2]) = g_fh[i].result
                 /\ Signed8(bin.result[1]) = g_fh[i].result

\* a game White won wrote a record of a position with White to move and
\* one with Black to move, the latter with a negative score
C15_Witness ==
    /\ g_pc = "returned"
    /\ g_result_val = 1
    /\ Len(g_fh) = 2
    /\ g_fh[1].fen.turn = WHITE /\ g_fh[1].result = 1
    /\ g_fh[2].fen.turn = BLACK /\ g_fh[2].result = 0 - 1
    /\ g_fh[2].score < 0

(***************************************************************************)
(* C16.  Quota truncation: when play_game, called with pos_left >= 1, has  *)
(* buffered k records and writes them, it writes exactly min(k, pos_left)  *)
(* records, the first ones in game order, after what the shard held, and   *)
(* returns pos_left - min(k, pos_left), which is not negative.             *)
(***************************************************************************)
C16_QuotaTruncation ==
    [][g_pc = "write" =>
          LET k == Len(g_positions)
              n == Min(k, g_pos_left)
          IN  /\ g_pos_left >= 1
              /\ Len(g_fh') = Len(g_fh) + n
              /\ SubSeq(g_fh', 1, Len(g_fh)) = g_fh
              /\ \A i \in 1 .. n :
                    /\ g_fh'[Len(g_fh) + i].fen = g_positions[i].fen
                    /\ g_fh'[Len(g_fh) + i].ply = g_positions[i].ply
                    /\ g_fh'[Len(g_fh) + i].move = g_positions[i].move
              /\ g_ret' = <<g_pos_left - n>>
              /\ g_ret'[1] >= 0
              /\ g_pc' = "returned"]_vars

\* a game buffered three records and, with two positions left, wrote the
\* first two and returned 0
C16_Witness ==
    /\ g_pc = "returned"
    /\ g_engine = "quit"
    /\ Len(g_positions) = 3
    /\ Len(g_fh) = 2
    /\ g_fh[2].ply = g_positions[2].ply
    /\ g_ret = <<0>>

(***************************************************************************)
(* C17.  Opening abandonment: when the board is game-over after the random *)
(* opening moves, play_game returns its pos_left argument unchanged,       *)
(* writes no record and never starts an engine; play_random_moves plays no *)
(* move on a board that is game-over, and never raises by selecting from   *)
(* an empty list of legal moves.                                           *)
(***************************************************************************)
C17_OpeningAbandonment ==
    /\ [](g_last # "indexerror")
    /\ []((g_pc = "opening" /\ g_random > 0) => ~is_game_over(g_board))
    /\ [][(g_pc = "opening" /\ g_pc' # "opening" /\ is_game_over(g_board))
             => /\ g_pc' = "returned"
                /\ g_ret' = <<g_pos_left>>
                /\ g_pos_left' = g_pos_left
                /\ g_fh' = g_fh
                /\ g_board' = g_board
                /\ g_engine' = "none"]_vars
    /\ []((g_pc = "returned" /\ g_engine = "none")
             => /\ g_ret = <<g_pos_left>>
                /\ g_fh = << >>
                /\ g_nsearch = 0)

\* a random move ended the game with iterations left, and the game was
\* abandoned
C17_Witness ==
    /\ g_pc = "returned"
    /\ g_engine = "none"
    /\ is_game_over(g_board)
    /\ g_ret = <<g_pos_left>>
    /\ g_fh = << >>

(***************************************************************************)
(* C18.  Engine termination: no session that started an engine ends, by    *)
(* returning or by an error, with the engine still running: on every way   *)
(* of leaving the loop (natural end, score cutoff, ply limit, resign, draw *)
(* adjudication, a failure in handling the engine's answer) the engine has *)
(* been quit when the session is over.                                     *)
(***************************************************************************)
C18_EngineStopped ==
    g_pc \in {"returned", "raised"} => g_engine # "running"

\* play_game raised on a mate score, whose score() is None, and left the
\* engine running
C18_Witness ==
    /\ g_pc = "raised"
    /\ g_last = "raised"
    /\ g_reply[1].score = << >>
    /\ g_engine = "running"

(***************************************************************************)
(* C19.  An answer without a score is not an error: play_game applies the  *)
(* engine's move to the board, records nothing, leaves resign_count,       *)
(* draw_count and the buffered records as they are, and goes on with the   *)
(* next turn of the loop, the engine still running.                        *)
(***************************************************************************)
C19_NoScoreSkip ==
    [][(g_pc = "handle" /\ ~g_reply[1].has_score)
          => /\ g_board' \in PushChoices(g_board)
             /\ g_positions' = g_positions
             /\ g_fh' = g_fh
             /\ g_resign_count' = g_resign_count
             /\ g_draw_count' = g_draw_count
             /\ g_result_val' = g_result_val
             /\ g_pc' = "loop"
             /\ g_engine' = "running"]_vars

\* after a recorded ply that counted towards resigning, an answer without
\* a score was skipped and the engine is asked again
C19_Witness ==
    /\ g_pc = "handle"
    /\ g_last = "noscore"
    /\ g_resign_count = 1
    /\ Len(g_positions) = 1
    /\ g_nsearch = 3
    /\ g_engine = "running"

(***************************************************************************)
(* C20.  Termination of a run: under fair scheduling, with every search    *)
(* returning, every worker eventually is given a batch of 0 and exits,     *)
(* finished_work eventually equals npositions, and the parent eventually   *)
(* reads finished_work = npositions and leaves the reporting loop; the     *)
(* loop is left only when the value read equals npositions, and the parent *)
(* joins the workers only after leaving it.                                *)
(***************************************************************************)
ReportingLoopLeft == m_pc \notin {"start", "progress", "report"}

C20_Termination ==
    /\ <>AllExited
    /\ <>(finished_work = npositions)
    /\ <>(ReportingLoopLeft /\ pos_generated = npositions)
    /\ [](ReportingLoopLeft => pos_generated = npositions)
    /\ [][(m_pc = "join" /\ m_i' # m_i) => pos_generated = npositions]_vars

\* a worker's play_game raised with the batch unfinished, and the parent
\* is still in its reporting loop
C20_Witness ==
    /\ \E w \in Workers : w_pc[w] = "crashed" /\ pos_left[w] > 0
    /\ m_pc = "progress"
    /\ finished_work < npositions
    /\ remaining_work = 0

(***************************************************************************)
(* C21.  Merge ordering: the output file is written only after every       *)
(* worker process has exited; once the copying is over its content is the  *)
(* concatenation of the shards of workers 0, 1, ..., nthreads-1 in this    *)
(* order, each shard copied once; a shard is deleted only after all        *)
(* shards have been copied; and when main has ended no shard remains.      *)
(***************************************************************************)
C21_Concatenation ==
    /\ Len(output) = nthreads
    /\ \A i \in 1 .. nthreads : output[i].src = i - 1

C21_MergeOrdering ==
    /\ []((m_pc \in {"remove", "done"}) => C21_Concatenation)
    /\ []((m_pc = "remove" /\ m_i = 0) =>
             \A i \in 1 .. nthreads : output[i].nrec = shard[i - 1])
    /\ []((m_pc \in {"done", "raised"}) =>
             \A w \in Workers : ~shard_open[w])
    /\ [][/\ output' # output => AllExited
          /\ shard_open' # shard_open =>
                \/ \A w \in Workers : shard_open[w] => shard_open'[w]
                \/ m_pc = "remove" /\ C21_Concatenation]_vars

\* generate_training_data.py: a worker got no batch and wrote no shard; the
\* merge raised on the missing file, and the other shard remains
C21_Witness ==
    /\ m_pc = "raised"
    /\ nthreads = 2
    /\ npositions > 0
    /\ \E w \in Workers : shard_open[w]
    /\ \E w \in Workers : ~shard_open[w]
    /\ AllExited

(***************************************************************************)
(* THE RAW PROTOCOL DRIVER of genquiet.py, gentrainingset.py and perft.py: *)
(* the engine is a subprocess with pipes on stdin and stdout, a command is *)
(* written with send_command and a line is read with recv_command.  A line *)
(* is the tuple of its characters, line terminator included; readline at   *)
(* end-of-file returns the empty line.  Commands are kept as the text      *)
(* written.                                                                *)
(***************************************************************************)
MaxLines == 3
MaxItems == 2
MaxReads == MaxLines + MaxItems + 1

DriverScripts == {"genquiet", "gentrainingset", "perft"}

line_id == <<"i", "d", " ", "n", "a", "m", "e", " ", "M", "a", "r", "v", "i", "n", "\n">>
line_uciok == <<"u", "c", "i", "o", "k", "\n">>
line_uciok_crlf == <<"u", "c", "i", "o", "k", "\r", "\n">>
line_pv == <<"p", "v", " ", "e", "2", "e", "4", "\n">>
line_nodes == <<"N", "o", "d", "e", "s", ":", " ", "2", "0", "\n">>
line_eof == << >>

EngineLines == {line_id, line_uciok, line_uciok_crlf, line_pv, line_nodes}

EngineOutputs ==
    UNION {[1 .. n -> EngineLines] : n \in 0 .. MaxLines}

\* str.strip(): the whitespace at both ends removed
Whitespace == {" ", "\t", "\n", "\r", "\f"}

RECURSIVE lstrip(_)
lstrip(s) ==
    IF s # << >> /\ Head(s) \in Whitespace THEN lstrip(Tail(s)) ELSE s

RECURSIVE rstrip(_)
rstrip(s) ==
    IF s # << >> /\ s[Len(s)] \in Whitespace
    THEN rstrip(SubSeq(s, 1, Len(s) - 1))
    ELSE s

strip(s) == rstrip(lstrip(s))

\* str.split(): the words between runs of whitespace
RECURSIVE split_from(_, _, _)
split_from(s, word, words) ==
    IF s = << >>
    THEN IF word = << >> THEN words ELSE Append(words, word)
    ELSE IF Head(s) \in Whitespace
         THEN split_from(Tail(s), << >>,
                         IF word = << >> THEN words ELSE Append(words, word))
         ELSE split_from(Tail(s), Append(word, Head(s)), words)

split(s) == split_from(s, << >>, << >>)

stopcmd_uciok == <<"u", "c", "i", "o", "k">>

\* recv_until's loop test, when every line ends the loop
recv_until_stops_any(msg, stopcmd) == TRUE

\* recv_until's loop test: msg.strip() == stopcmd
recv_until_stops(msg, stopcmd) == strip(msg) = stopcmd

\* proc.stdout.readline(): the next line, or the empty line at end-of-file
readline(out) == IF out = << >> THEN line_eof ELSE Head(out)

AfterReadline(out) == IF out = << >> THEN out ELSE Tail(out)

FileChars == {"a", "b", "c", "d", "e", "f", "g", "h"}
RankChars == {"1", "2", "3", "4", "5", "6", "7", "8"}
PromotionChars == {"q", "r", "b", "n"}

\* chess.Move.from_uci accepts the word
from_uci_accepts(word) ==
    \/ word = <<"0", "0", "0", "0">>
    \/ /\ Len(word) \in {4, 5}
       /\ word[1] \in FileChars /\ word[2] \in RankChars
       /\ word[3] \in FileChars /\ word[4] \in RankChars
       /\ Len(word) = 5 => word[5] \in PromotionChars
       /\ SubSeq(word, 1, 2) # SubSeq(word, 3, 4)

\* convert_epd_position goes through with this reply to `quiet`
quiet_reply_accepted(msg) ==
    LET msgparts == split(msg)
    IN  \A idx \in 2 .. Len(msgparts) : from_uci_accepts(msgparts[idx])

\* run_perft finds `Nodes: ([0-9]+)` in the reply to `perft`
nodes_prefix == <<"N", "o", "d", "e", "s", ":", " ">>

perft_reply_accepted(resp) ==
    \E i \in 1 .. Len(resp) - Len(nodes_prefix) :
        /\ SubSeq(resp, i, i + Len(nodes_prefix) - 1) = nodes_prefix
        /\ \E k \in 1 .. 10 : resp[i + Len(nodes_prefix)] = DigitChars[k]

uci_command == "uci\n"
position_command == "position fen <fen>\n"
quiet_command == "quiet\n"
perft_command == "perft <depth>\n"
setoption_command == "setoption name UCI_Chess960 value true\n"
quit_command == "quit\n"

ItemsStarted == Cardinality({i \in 1 .. Len(d_sent) : d_sent[i] = position_command})

DriverIdle ==
    /\ d_script = "none"
    /\ d_pc = "idle"
    /\ d_sent = << >>
    /\ d_in = << >>
    /\ d_out = << >>

DriverInit ==
    /\ d_script \in DriverScripts
    /\ d_pc = "start"
    /\ d_sent = << >>
    /\ d_in = << >>
    /\ d_out \in EngineOutputs

\* subprocess.Popen, then send_command(process, 'uci\n')
DriverStart ==
    /\ d_pc = "start"
    /\ d_sent' = Append(d_sent, uci_command)
    /\ d_pc' = "recv_until"
    /\ UNCHANGED <<d_script, d_in, d_out>>

\* One turn of the loop of recv_until(process, 'uciok')
DriverRecvUntil ==
    /\ d_pc = "recv_until"
    /\ Len(d_in) < MaxReads
    /\ LET msg == readline(d_out)
       IN  /\ d_in' = Append(d_in, msg)
           /\ d_out' = AfterReadline(d_out)
           /\ d_pc' = IF recv_until_stops(msg, stopcmd_uciok)
                      THEN IF d_script = "perft" THEN "setoption" ELSE "loop"
                      ELSE "recv_until"
    /\ UNCHANGED <<d_script, d_sent>>

\* perft.py: send_command(process, 'setoption name UCI_Chess960 value true\n')
DriverSetOption ==
    /\ d_pc = "setoption"
    /\ d_sent' = Append(d_sent, setoption_command)
    /\ d_pc' = "loop"
    /\ UNCHANGED <<d_script, d_in, d_out>>

\* convert_epd_position, or run_perft, for one position of the input
DriverItem ==
    /\ d_pc = "loop"
    /\ ItemsStarted < MaxItems
    /\ Len(d_in) < MaxReads
    /\ LET msg == readline(d_out)
       IN  /\ d_sent' = d_sent \o
                 <<position_command,
                   IF d_script = "perft" THEN perft_command ELSE quiet_command>>
           /\ d_in' = Append(d_in, msg)
           /\ d_out' = AfterReadline(d_out)
           /\ d_pc' = IF d_script = "perft"
                      THEN IF perft_reply_accepted(msg) THEN "loop" ELSE "raised"
                      ELSE IF quiet_reply_accepted(msg) THEN "loop" ELSE "raised"
    /\ UNCHANGED d_script

\* The input is exhausted: the files are closed and, except in genquiet.py,
\* send_command(process, 'quit\n')
DriverFinish ==
    /\ d_pc = "loop"
    /\ d_sent' = IF d_script = "genquiet" THEN d_sent
                 ELSE Append(d_sent, quit_command)
    /\ d_pc' = "done"
    /\ UNCHANGED <<d_script, d_in, d_out>>

\* A write to the pipe of an engine that has exited raises BrokenPipeError
DriverBrokenPipe ==
    /\ d_pc \in {"setoption", "loop"}
    /\ d_pc = "loop" /\ d_script = "genquiet" => ItemsStarted < MaxItems
    /\ d_out = << >>
    /\ d_pc' = "raised"
    /\ UNCHANGED <<d_script, d_sent, d_in, d_out>>

(***************************************************************************)
(* C22: in every session of the raw protocol driver the first command      *)
(* written is `uci`, and no further command is written before a line       *)
(* equal to `uciok` has been read.                                         *)
(***************************************************************************)
SentinelLines == {line_uciok, line_uciok_crlf}

SentinelReceived == \E i \in 1 .. Len(d_in) : d_in[i] \in SentinelLines

C22_Handshake ==
    /\ [](d_sent # << >> => d_sent[1] = uci_command)
    /\ [][/\ Len(d_sent') >= Len(d_sent)
          /\ SubSeq(d_sent', 1, Len(d_sent)) = d_sent
          /\ (d_sent # << >> /\ d_sent' # d_sent) => SentinelReceived]_vars

C22_Witness ==
    /\ d_script = "perft"
    /\ d_pc = "done"
    /\ d_in[1] = line_id
    /\ d_in[2] = line_uciok_crlf
    /\ d_sent[2] = setoption_command
    /\ d_sent[Len(d_sent)] = quit_command
    /\ ItemsStarted = 1

(***************************************************************************)
(* C23: when the engine's output ends without a `uciok` line, the          *)
(* handshake ends in a fatal error: a read that meets end-of-file while    *)
(* recv_until waits for the sentinel leaves the session raised, with no    *)
(* further read and no command written again.                              *)
(***************************************************************************)
C23_SentinelMissingIsFatal ==
    [][(d_pc = "recv_until" /\ d_out = << >> /\ d_in' # d_in)
          => (d_pc' = "raised" /\ d_sent' = d_sent)]_vars

C23_Witness ==
    /\ d_pc = "recv_until"
    /\ d_out = << >>
    /\ ~SentinelReceived
    /\ Len(d_in) >= 3
    /\ d_in[Len(d_in)] = line_eof
    /\ d_in[Len(d_in) - 1] = line_eof

(***************************************************************************)
(* THE SEARCH LIMITS of play_game.  A Limit has the fields time, depth and *)
(* nodes, each << >> for None or <<value>>; gensfen.py sets the limit up   *)
(* once before the game loop, gennnuedata.py builds it at every call of    *)
(* engine.play.                                                            *)
(***************************************************************************)
MAX_TIME == 60
MaxDepth == 3
MaxNodes == 3
MaxSearches == 2

None == << >>

Optional(values) == {None} \cup {<<v>> : v \in values}

\* `if x:` for an optional integer: neither None nor 0
Truthy(x) == x # None /\ x[1] # 0

Limit(time, depth, nodes) == [time |-> time, depth |-> depth, nodes |-> nodes]

\* gensfen.py's limit, had it been built without the time
setup_limit_no_time(depth, nodes) ==
    Limit(None,
          IF Truthy(depth) THEN depth ELSE None,
          IF Truthy(nodes) THEN nodes ELSE None)

\* gensfen.py: limit = Limit(time=MAX_TIME), then depth and nodes if given
setup_limit(depth, nodes) ==
    Limit(<<MAX_TIME>>,
          IF Truthy(depth) THEN depth ELSE None,
          IF Truthy(nodes) THEN nodes ELSE None)

\* gennnuedata.py: Limit(depth=args.depth, time=MAX_TIME)
play_limit_nnue(depth) == Limit(<<MAX_TIME>>, depth, None)

LimitIdle ==
    /\ l_script = "none"
    /\ l_depth = None
    /\ l_nodes = None
    /\ l_pc = "idle"
    /\ l_limit = << >>
    /\ l_requests = << >>

\* The command line: gensfen.py has --depth and --nodes, both without a
\* default; gennnuedata.py has --depth (default 8) only.
LimitInit ==
    /\ l_script \in Scripts
    /\ IF l_script = "gensfen"
       THEN /\ l_depth \in Optional(0 .. MaxDepth)
            /\ l_nodes \in Optional(0 .. MaxNodes)
       ELSE /\ l_depth \in {<<v>> : v \in 0 .. MaxDepth}
            /\ l_nodes = None
    /\ l_pc = "setup"
    /\ l_limit = << >>
    /\ l_requests = << >>

\* The engine is started; gensfen.py sets up the search limits
LimitSetup ==
    /\ l_pc = "setup"
    /\ l_limit' = IF l_script = "gensfen"
                  THEN <<setup_limit(l_depth, l_nodes)>>
                  ELSE << >>
    /\ l_pc' = "loop"
    /\ UNCHANGED <<l_script, l_depth, l_nodes, l_requests>>

\* result = engine.play(board, limit, info=chess.engine.Info.SCORE)
LimitPlay ==
    /\ l_pc = "loop"
    /\ Len(l_requests) < MaxSearches
    /\ l_requests' = Append(l_requests,
                            IF l_script = "gensfen" THEN l_limit[1]
                            ELSE play_limit_nnue(l_depth))
    /\ UNCHANGED <<l_script, l_depth, l_nodes, l_pc, l_limit>>

\* The game loop is left
LimitLoopExit ==
    /\ l_pc = "loop"
    /\ l_pc' = "done"
    /\ UNCHANGED <<l_script, l_depth, l_nodes, l_limit, l_requests>>

(***************************************************************************)
(* C24: every search request of play_game carries at least one stop bound  *)
(* (a positive time, depth or node count), whether the depth and nodes     *)
(* options are set, unset or zero.                                         *)
(***************************************************************************)
Bounded(limit) ==
    \/ limit.time # None /\ limit.time[1] > 0
    \/ limit.depth # None /\ limit.depth[1] > 0
    \/ limit.nodes # None /\ limit.nodes[1] > 0

C24_SearchBounded ==
    \A i \in 1 .. Len(l_requests) : Bounded(l_requests[i])

C24_Witness ==
    /\ l_script = "gensfen"
    /\ l_depth = <<0>>
    /\ l_nodes = None
    /\ Len(l_requests) = MaxSearches
    /\ l_requests[1].depth = None
    /\ l_requests[1].nodes = None

C24_WitnessNnue ==
    /\ l_script = "gennnuedata"
    /\ l_depth = <<0>>
    /\ Len(l_requests) = MaxSearches
    /\ l_requests[MaxSearches].depth = <<0>>

(***************************************************************************)
(* C25.  Terminal classification: the game loop is left either with the    *)
(* board game-over or by an adjudication (score cutoff, ply limit, resign, *)
(* draw), never both; when the board is game-over the final result is the  *)
(* board's result (1-0 gives 1, 0-1 gives -1, a draw gives 0), and after   *)
(* an adjudication the board is not game-over and the final classification *)
(* keeps the adjudicated result.                                           *)
(***************************************************************************)
Adjudications == {"cutoff", "plylimit", "resign", "draw"}

C25_TerminalClassification ==
    /\ [](g_pc = "quit" => (is_game_over(g_board) <=> g_last \notin Adjudications))
    /\ [][(g_pc = "quit" /\ g_pc' # "quit")
             => /\ g_board' = g_board
                /\ g_board.over = "1-0" => g_result_val' = 1
                /\ g_board.over = "0-1" => g_result_val' = 0 - 1
                /\ g_board.over = "1/2-1/2" => g_result_val' = 0
                /\ g_last \in Adjudications => g_result_val' = g_result_val]_vars

\* a game that ended in a win for Black after records were buffered
C25_Witness ==
    /\ g_pc = "write"
    /\ g_board.over = "0-1"
    /\ g_result_val = 0 - 1
    /\ g_positions # << >>
    /\ g_last = "recorded"

\* a game adjudicated by the score cutoff in White's favour
C25_WitnessAdjudicated ==
    /\ g_pc = "write"
    /\ g_last = "cutoff"
    /\ g_board.over = "*"
    /\ g_result_val = 1

(***************************************************************************)
(* C26.  Winner convention of adjudication: the result set by the resign   *)
(* adjudication, like the one set by the eval-limit cutoff, is 1 exactly   *)
(* when White is ahead and -1 exactly when Black is, whichever side is to  *)
(* move; hence the mover-relative result of the record of the resigning    *)
(* ply has the sign of that record's mover-relative score.                 *)
(***************************************************************************)
Sign(n) == IF n > 0 THEN 1 ELSE IF n < 0 THEN 0 - 1 ELSE 0

C26_WinnerConvention ==
    /\ [][(g_pc = "handle" /\ g_last' \in {"cutoff", "resign"})
             => g_result_val' = Sign(white_score(g_board, g_reply[1].score[1]))]_vars
    /\ []((g_pc = "write" /\ g_last = "resign")
             => LET sfen == g_positions[Len(g_positions)]
                IN  Sign(pov_result_of(sfen, g_result_val))
                       = Sign(pov_score_of(sfen)))

\* a game resigned on a ply with Black to move, about to be written
C26_Witness ==
    /\ g_pc = "write"
    /\ g_last = "resign"
    /\ g_positions[Len(g_positions)].score.turn = BLACK
    /\ g_positions[Len(g_positions)].score.relative < 0

(***************************************************************************)
(* C27.  In-flight conservation: in every reachable state remaining_work + *)
(* finished_work + the batches the workers hold and have not yet reported  *)
(* = npositions; hence whenever finished_work = npositions, remaining_work *)
(* is 0 and no worker holds an unreported batch, and when the parent has   *)
(* read pos_generated = npositions every record counted is in the shards   *)
(* before it joins and merges.                                             *)
(***************************************************************************)
\* work_todo of a worker outside request_work: the batch it was given and
\* has not yet added to finished_work
Held(w) ==
    IF w_pc[w] \in {"acquire", "play", "crashed"} THEN work_todo[w] ELSE 0

HeldTotal == SumUpTo([w \in Workers |-> Held(w)], nthreads)

C27_InFlightConservation ==
    /\ remaining_work + finished_work + HeldTotal = npositions
    /\ finished_work = npositions
          => /\ remaining_work = 0
             /\ \A w \in Workers : Held(w) = 0 /\ pos_left[w] = 0
    /\ (m_pc = "join" /\ m_i = 0)
          => /\ pos_generated = npositions
             /\ finished_work = npositions
             /\ ShardRecords = npositions

\* one worker holds a batch while the other has reported one and the
\* quota is not exhausted
C27_Witness ==
    /\ nthreads = 2
    /\ \E w \in Workers : w_pc[w] = "play" /\ Held(w) = 1 /\ shard[w] = 0
    /\ \E w \in Workers : w_pc[w] = "release" /\ work_todo[w] > 0
    /\ finished_work > 0
    /\ HeldTotal > 0

(***************************************************************************)
(* C28.  The progress counter never overstates the work done: until the    *)
(* shards are removed finished_work is at most the number of records       *)
(* written to them; finished_work never decreases, and it grows only by    *)
(* the batch of a worker that enters request_work after writing the whole  *)
(* batch.                                                                  *)
(***************************************************************************)
C28_ProgressNotOverstated ==
    /\ [](m_pc \notin {"remove", "done"} => finished_work <= ShardRecords)
    /\ [][/\ finished_work' >= finished_work
          /\ finished_work' # finished_work
                => \E w \in Workers :
                      /\ w_pc[w] = "acquire"
                      /\ w_pc'[w] = "alloc"
                      /\ pos_left[w] = 0
                      /\ finished_work' = finished_work + work_todo[w]
                      /\ shard[w] >= work_todo[w]]_vars

\* a worker has reported a full batch while the other has written its own
\* and not yet reported it
C28_Witness ==
    /\ nthreads = 2
    /\ finished_work = BATCH_SIZE
    /\ ShardRecords > finished_work
    /\ \E w \in Workers :
          w_pc[w] = "acquire" /\ work_todo[w] > 0 /\ shard[w] = work_todo[w]
    /\ \E w \in Workers : w_pc[w] = "alloc" /\ shard[w] = BATCH_SIZE

(***************************************************************************)
(* C29.  Position block capacity: for a board with one king per side and   *)
(* at most 30 other pieces the bit cursor of encode_position ends at       *)
(* 13 + 62 + 4 * (other pieces) + 4 + (7 with an en-passant square, else   *)
(* 1) + 23 bits, at most 229 and so within the 256 bits of the block, and  *)
(* every bit of the block from the cursor on is 0.                         *)
(***************************************************************************)
BlockBits == 32 * 8
WorstCaseBits == 13 + 62 + 4 * 30 + 4 + 7 + 23

OtherPieces(board) ==
    Cardinality({sq \in 0 .. 63 :
                    board.pieces[sq] # << >> /\ board.pieces[sq][1] # KING})

Kings(board, color) ==
    Cardinality({sq \in 0 .. 63 : board.pieces[sq] = <<KING, color>>})

BitsUsed(board) ==
    13 + 62 + 4 * OtherPieces(board) + 4
       + (IF board.ep_square = << >> THEN 1 ELSE 7) + 23

C29_BlockCapacity ==
    (/\ c_board # << >>
     /\ Kings(c_board, WHITE) = 1
     /\ Kings(c_board, BLACK) = 1
     /\ OtherPieces(c_board) <= 30)
    => LET e == encode_position_cursor(c_board)
       IN  /\ e[2] = BitsUsed(c_board)
           /\ e[2] <= WorstCaseBits
           /\ e[2] <= BlockBits
           /\ Len(e[1]) = 32
           /\ \A i \in e[2] .. BlockBits - 1 :
                 BitOf(e[1][(i \div 8) + 1], i % 8) = 0
           /\ c_data # << >> => c_data = e[1]

\* the worst case: thirty pieces beside the kings and an en-passant square
C29_Witness ==
    /\ c_data # << >>
    /\ OtherPieces(c_board) = 30
    /\ c_board.ep_square = <<20>>
    /\ encode_position_cursor(c_board)[2] = WorstCaseBits

(***************************************************************************)
(* C30.  Every buffered record has an absolute score of at most the        *)
(* evaluation limit, whatever the engine reports, and the score buffered   *)
(* is the engine's mover-relative score of that ply; hence, the limit      *)
(* being at most 32767, the 16-bit signed field written for the record     *)
(* reads back as that score.                                               *)
(***************************************************************************)
C30_ScoreFitsField ==
    /\ [](\A i \in 1 .. Len(g_positions) :
             LET sfen == g_positions[i]
                 limit == IF g_script = "gensfen" THEN eval_limit
                          ELSE eval_limit_nnue
                 bin == write_sfen_bin_fields(sfen, g_result_val)
             IN  /\ Abs(sfen.score.relative) <= limit
                 /\ limit <= Int16Max
                       => Signed16(bin.score[1], bin.score[2])
                             = sfen.score.relative)
    /\ [][g_positions' # g_positions
             => /\ Len(g_positions') = Len(g_positions) + 1
                /\ SubSeq(g_positions', 1, Len(g_positions)) = g_positions
                /\ g_positions'[Len(g_positions')].score.relative
                      = g_reply[1].score[1]
                /\ g_positions'[Len(g_positions')].score.turn
                      = g_board.turn]_vars

\* a game that buffered a negative score was cut off by a score beyond the
\* range of the field, and its record was written
C30_Witness ==
    /\ g_script = "gensfen"
    /\ g_pc = "returned"
    /\ g_last = "cutoff"
    /\ g_reply[1].score = <<Int16Max + 1>>
    /\ Len(g_fh) >= 1
    /\ g_positions[1].score.relative = 0 - RESIGN_SCORE

(***************************************************************************)
(* C31.  Within one game the ply values of the buffered records are        *)
(* strictly increasing; each is 2 * fullmove_number with White to move     *)
(* and 2 * fullmove_number + 1 with Black to move, so it is even exactly   *)
(* when White is to move; at most one record has a ply beyond MAX_PLY,     *)
(* and such a record is the last of the game.                              *)
(***************************************************************************)
C31_PlyOrder ==
    /\ \A i \in 1 .. Len(g_positions) :
          LET sfen == g_positions[i]
          IN  /\ sfen.ply = 2 * sfen.fen.fullmove_number
                               + (IF sfen.fen.turn = WHITE THEN 0 ELSE 1)
              /\ (sfen.ply % 2 = 0) <=> (sfen.fen.turn = WHITE)
              /\ sfen.ply > MAX_PLY => i = Len(g_positions)
    /\ \A i \in 1 .. Len(g_positions) - 1 :
          g_positions[i].ply < g_positions[i + 1].ply
    /\ Cardinality({i \in 1 .. Len(g_positions) :
                       g_positions[i].ply > MAX_PLY}) <= 1

\* a game recorded the ply at the limit, a ply was skipped, and the next
\* record, beyond the limit, ended the game
C31_Witness ==
    /\ g_last = "plylimit"
    /\ Len(g_positions) = 2
    /\ g_positions[1].ply = MAX_PLY
    /\ g_positions[2].ply = MAX_PLY + 2
    /\ g_positions[2].fen.turn = WHITE

(***************************************************************************)
(* THE TRAINING SET GENERATOR gentrainingset.py.  A game of the input PGN  *)
(* is what the script consults of it: its Result header, the number of     *)
(* plies of its main line (movecount), the plycount from which the board   *)
(* has 5 pieces or fewer (endgame, 0 if never), and a pair of plycounts    *)
(* whose positions are the same (repeat, << >> if none).  An EPD string is *)
(* <<number of the game, position>>, equal for equal positions of a game;  *)
(* the line written for it by convert_epd_position stands for it.          *)
(***************************************************************************)
EARLY_SKIP == 4
LATE_SKIP == 10
MIN_MOVECOUNT == 40
ENDGAME_PIECES == 5

MaxGames == 2
MaxSamples == 2
MaxTrainPositions == 3

PgnGame(result, movecount, endgame, repeat) ==
    [result |-> result, movecount |-> movecount, endgame |-> endgame,
     repeat |-> repeat]

\* a game too short, a game cut short by an endgame, a game with a
\* repeated position, a game without a proper result, and a full game
ShortGames ==
    {PgnGame("1-0", MIN_MOVECOUNT - 1, 0, << >>),
     PgnGame("0-1", MIN_MOVECOUNT, 7, << >>),
     PgnGame("1/2-1/2", MIN_MOVECOUNT, 10, <<5, 9>>),
     PgnGame("*", MIN_MOVECOUNT, 7, << >>)}

FullGame == PgnGame("1-0", MIN_MOVECOUNT, 0, << >>)

\* The inputs: up to MaxGames of the short games, or the full game alone
PgnInputs ==
    UNION {[1 .. n -> ShortGames] : n \in 0 .. MaxGames}
       \cup {<<FullGame>>}

\* count_moves(game)
count_moves(game) == game.movecount

\* count_pieces(node.board()) of the node reached by plycount plies
count_pieces(game, plycount) ==
    IF game.endgame # 0 /\ plycount >= game.endgame THEN ENDGAME_PIECES
    ELSE 32 - (plycount \div 8)

\* node.board().epd(c9=...) of that node in game number gameno
epd(gameno, game, plycount) ==
    IF game.repeat # << >> /\ plycount = game.repeat[2]
    THEN <<gameno, game.repeat[1]>>
    ELSE <<gameno, plycount>>

\* lines 107-131: the loop of iterate_game from the node reached by
\* plycount plies; the plycounts of the positions appended
RECURSIVE iterate_game_from(_, _, _, _)
iterate_game_from(game, movecount, plycount, plies) ==
    IF plycount >= movecount THEN plies
    ELSE LET next == plycount + 1
         IN  IF next < EARLY_SKIP
             THEN iterate_game_from(game, movecount, next, plies)
             ELSE IF next > movecount - LATE_SKIP THEN plies
             ELSE IF count_pieces(game, next) <= ENDGAME_PIECES THEN plies
             ELSE iterate_game_from(game, movecount, next,
                                    Append(plies, next))

\* iterate_game(game): none for a game shorter than 40 plies
iterate_game(game) ==
    LET movecount == count_moves(game)
    IN  IF movecount < MIN_MOVECOUNT THEN [none |-> TRUE, plies |-> << >>]
        ELSE [none |-> FALSE,
              plies |-> iterate_game_from(game, movecount, 0, << >>)]

\* list.remove(x): the list without the first element equal to x
RECURSIVE remove(_, _)
remove(list, x) ==
    IF list = << >> THEN list
    ELSE IF Head(list) = x THEN Tail(list)
    ELSE <<Head(list)>> \o remove(Tail(list), x)

\* samples_to_get, without the cap by what is left of the budget
samples_to_get_uncapped(samples, budget, count) == samples

\* lines 174-176
samples_to_get(samples, budget, count) ==
    IF samples > budget - count THEN budget - count ELSE samples

TrainIdle ==
    /\ t_samples = 0
    /\ t_npositions = 0
    /\ t_games = << >>
    /\ t_read = 0
    /\ t_pc = "idle"
    /\ t_plies = << >>
    /\ t_epdlist = << >>
    /\ t_samples_to_get = 0
    /\ t_randlist = << >>
    /\ t_count = 0
    /\ t_epd = << >>

\* The command line and the input; the first game is read (line 156)
TrainInit ==
    /\ t_samples \in 0 .. MaxSamples
    /\ t_npositions \in 0 .. MaxTrainPositions
    /\ t_games \in PgnInputs
    /\ t_read = (IF t_games = << >> THEN 0 ELSE 1)
    /\ t_pc = "loop"
    /\ t_plies = << >>
    /\ t_epdlist = << >>
    /\ t_samples_to_get = 0
    /\ t_randlist = << >>
    /\ t_count = 0
    /\ t_epd = << >>

ProperResults == {"1-0", "1/2-1/2", "0-1"}

\* read_game of the next game: the games left, and the games read
NextGameRead ==
    /\ t_games' = Tail(t_games)
    /\ t_read' = (IF Tail(t_games) = << >> THEN t_read ELSE t_read + 1)

\* lines 160-166: a game without a proper result is skipped
TrainSkipGame ==
    /\ t_pc = "loop"
    /\ t_games # << >>
    /\ Head(t_games).result \notin ProperResults
    /\ NextGameRead
    /\ UNCHANGED <<t_samples, t_npositions, t_pc, t_plies, t_epdlist,
                   t_samples_to_get, t_randlist, t_count, t_epd>>

\* lines 168-177: iterate_game, and samples_to_get when there are
\* candidates
TrainIterate ==
    /\ t_pc = "loop"
    /\ t_games # << >>
    /\ Head(t_games).result \in ProperResults
    /\ LET r == iterate_game(Head(t_games))
       IN  /\ t_plies' = r.plies
           /\ t_epdlist' = [i \in 1 .. Len(r.plies) |->
                               epd(t_read, Head(t_games), r.plies[i])]
           /\ t_randlist' = << >>
           /\ IF r.none \/ r.plies = << >>
              THEN /\ t_pc' = "write"
                   /\ UNCHANGED t_samples_to_get
              ELSE /\ t_pc' = "select"
                   /\ t_samples_to_get' =
                         samples_to_get(t_samples, t_npositions, t_count)
    /\ UNCHANGED <<t_samples, t_npositions, t_games, t_read, t_count, t_epd>>

\* select_positions, lines 68-77: one turn of its loop, or its return
TrainSelect ==
    /\ t_pc = "select"
    /\ IF Len(t_randlist) < t_samples_to_get /\ Len(t_epdlist) > 0
       THEN \E idx \in 0 .. Len(t_epdlist) - 1 :
               LET posstr == t_epdlist[idx + 1]
               IN  /\ t_epdlist' = remove(t_epdlist, posstr)
                   /\ t_randlist' = Append(t_randlist, posstr)
                   /\ UNCHANGED t_pc
       ELSE /\ t_pc' = "write"
            /\ UNCHANGED <<t_epdlist, t_randlist>>
    /\ UNCHANGED <<t_samples, t_npositions, t_games, t_read, t_plies,
                   t_samples_to_get, t_count, t_epd>>

\* lines 178-190: the selected positions are converted and written, the
\* total is counted, and the loop ends or the next game is read
TrainWrite ==
    /\ t_pc = "write"
    /\ t_epd' = t_epd \o t_randlist
    /\ t_count' = t_count + Len(t_randlist)
    /\ IF t_count + Len(t_randlist) >= t_npositions
       THEN /\ t_pc' = "done"
            /\ UNCHANGED <<t_games, t_read>>
       ELSE /\ t_pc' = "loop"
            /\ NextGameRead
    /\ UNCHANGED <<t_samples, t_npositions, t_plies, t_epdlist,
                   t_samples_to_get, t_randlist>>

\* lines 178-179: convert_epd_position raises before any line of the game
\* is written
TrainConvertRaises ==
    /\ t_pc = "write"
    /\ t_randlist # << >>
    /\ t_pc' = "raised"
    /\ UNCHANGED <<t_samples, t_npositions, t_games, t_read, t_plies,
                   t_epdlist, t_samples_to_get, t_randlist, t_count, t_epd>>

\* line 158: read_game returned None, the loop ends
TrainEnd ==
    /\ t_pc = "loop"
    /\ t_games = << >>
    /\ t_pc' = "done"
    /\ UNCHANGED <<t_samples, t_npositions, t_games, t_read, t_plies,
                   t_epdlist, t_samples_to_get, t_randlist, t_count, t_epd>>

(***************************************************************************)
(* C32.  gentrainingset position budget: the lines written never exceed    *)
(* args.npositions; at most args.samples are taken from a game, each       *)
(* candidate of the game at most once, and select_positions returns        *)
(* min(samples_to_get, candidates) entries; the main loop stops as soon as *)
(* the total reaches args.npositions.                                      *)
(***************************************************************************)
Count(list, x) == Cardinality({i \in 1 .. Len(list) : list[i] = x})

\* the candidates iterate_game gave for the game being worked on
Candidates ==
    LET plies == iterate_game(Head(t_games)).plies
    IN  [i \in 1 .. Len(plies) |-> epd(t_read, Head(t_games), plies[i])]

C32_PositionBudget ==
    /\ [](/\ Len(t_epd) <= t_npositions
          /\ t_pc \in {"loop", "done"} => t_count = Len(t_epd)
          /\ \A g \in 1 .. t_read :
                Cardinality({i \in 1 .. Len(t_epd) : t_epd[i][1] = g})
                   <= t_samples
          /\ t_pc \in {"select", "write"}
                => /\ Len(t_randlist) <= t_samples
                   /\ \A i \in 1 .. Len(t_randlist) :
                         Count(t_randlist, t_randlist[i])
                            <= Count(Candidates, t_randlist[i])
          /\ (t_pc = "write" /\ Candidates # << >>)
                => Len(t_randlist) = Min(t_samples_to_get, Len(Candidates)))
    /\ [][/\ (t_count' # t_count /\ t_count' >= t_npositions)
                => (t_pc' = "done" /\ t_games' = t_games)
          /\ t_pc = "done" => t_epd' = t_epd]_vars

\* the budget was reached in the second game, from which fewer than
\* args.samples positions were taken, one of them a repeated position
C32_Witness ==
    /\ t_pc = "done"
    /\ t_samples = 2
    /\ t_npositions = 3
    /\ Len(t_epd) = 3
    /\ t_read = 2
    /\ t_epd[3][1] = 2
    /\ t_games[1].repeat # << >>
    /\ t_epd[3][2] = 5
    /\ Len(t_games) = 1

(***************************************************************************)
(* C33.  gentrainingset game filtering: iterate_game yields nothing for a  *)
(* game shorter than 40 plies; of a longer game it yields no position      *)
(* reached by one of the first EARLY_SKIP plies nor by one of the last     *)
(* LATE_SKIP plies, and it yields nothing from the first position on that  *)
(* has 5 pieces or fewer.                                                  *)
(***************************************************************************)
C33_GameFiltering ==
    t_pc \in {"select", "write"} =>
       LET game == Head(t_games)
           movecount == count_moves(game)
       IN  /\ movecount < MIN_MOVECOUNT => t_plies = << >>
           /\ \A i \in 1 .. Len(t_plies) :
                 /\ t_plies[i] > EARLY_SKIP
                 /\ t_plies[i] <= movecount - LATE_SKIP
                 /\ \A q \in EARLY_SKIP .. t_plies[i] :
                       count_pieces(game, q) > ENDGAME_PIECES

\* the position reached by the fourth ply of a game is a candidate
C33_Witness ==
    /\ t_pc = "select"
    /\ Head(t_games) = FullGame
    /\ t_plies[1] = EARLY_SKIP
    /\ t_plies[Len(t_plies)] = MIN_MOVECOUNT - LATE_SKIP
    /\ t_epdlist[1] = <<t_read, EARLY_SKIP>>

\* the same with the first EARLY_SKIP - 1 plies skipped, as the code does
C33_SkipsAsCoded ==
    t_pc \in {"select", "write"} =>
       LET game == Head(t_games)
           movecount == count_moves(game)
       IN  /\ movecount < MIN_MOVECOUNT => t_plies = << >>
           /\ \A i \in 1 .. Len(t_plies) :
                 /\ t_plies[i] >= EARLY_SKIP
                 /\ t_plies[i] <= movecount - LATE_SKIP
                 /\ \A q \in EARLY_SKIP .. t_plies[i] :
                       count_pieces(game, q) > ENDGAME_PIECES

(***************************************************************************)
(* The specifications.                                                     *)
(***************************************************************************)
Init == WorkInit /\ CodecIdle /\ GameIdle /\ DriverIdle /\ LimitIdle /\ TrainIdle

Next ==
    \/ MainStart
          /\ UNCHANGED <<codecVars, gameVars, driverVars, limitVars, trainVars>>
    \/ MainAcquire
          /\ UNCHANGED <<codecVars, gameVars, driverVars, limitVars, trainVars>>
    \/ MainReport
          /\ UNCHANGED <<codecVars, gameVars, driverVars, limitVars, trainVars>>
    \/ MainJoin
          /\ UNCHANGED <<codecVars, gameVars, driverVars, limitVars, trainVars>>
    \/ MainMergeOpen
          /\ UNCHANGED <<codecVars, gameVars, driverVars, limitVars, trainVars>>
    \/ MainCopy
          /\ UNCHANGED <<codecVars, gameVars, driverVars, limitVars, trainVars>>
    \/ MainRemove
          /\ UNCHANGED <<codecVars, gameVars, driverVars, limitVars, trainVars>>
    \/ \E w \in Workers : WorkerOpen(w)
          /\ UNCHANGED <<codecVars, gameVars, driverVars, limitVars, trainVars>>
    \/ \E w \in Workers : ReqAcquire(w)
          /\ UNCHANGED <<codecVars, gameVars, driverVars, limitVars, trainVars>>
    \/ \E w \in Workers : ReqAlloc(w)
          /\ UNCHANGED <<codecVars, gameVars, driverVars, limitVars, trainVars>>
    \/ \E w \in Workers : ReqRelease(w)
          /\ UNCHANGED <<codecVars, gameVars, driverVars, limitVars, trainVars>>
    \/ \E w \in Workers : WorkerPlayGame(w)
          /\ UNCHANGED <<codecVars, gameVars, driverVars, limitVars, trainVars>>
    \/ \E w \in Workers :
          WorkerPlayGameRaises(w)
          /\ UNCHANGED <<codecVars, gameVars, driverVars, limitVars, trainVars>>
    \/ \E w \in Workers : WorkerClose(w)
          /\ UNCHANGED <<codecVars, gameVars, driverVars, limitVars, trainVars>>

Spec == Init /\ [][Next]_vars

(***************************************************************************)
(* The coordinator under fair scheduling: every process that can take a    *)
(* step eventually takes it, a process waiting for the lock eventually     *)
(* gets it, every call of play_game returns, and a worker's games do not   *)
(* go on for ever without writing a record.                                *)
(***************************************************************************)
FairStep(A) == A
          /\ UNCHANGED <<codecVars, gameVars, driverVars, limitVars, trainVars>>

Fairness ==
    /\ WF_vars(FairStep(MainStart))
    /\ SF_vars(FairStep(MainAcquire))
    /\ WF_vars(FairStep(MainReport))
    /\ WF_vars(FairStep(MainJoin))
    /\ WF_vars(FairStep(MainMergeOpen))
    /\ WF_vars(FairStep(MainCopy))
    /\ WF_vars(FairStep(MainRemove))
    /\ \A w \in 0 .. MaxWorkers - 1 :
          /\ WF_vars(w \in Workers /\ FairStep(WorkerOpen(w)))
          /\ SF_vars(w \in Workers /\ FairStep(ReqAcquire(w)))
          /\ WF_vars(w \in Workers /\ FairStep(ReqAlloc(w)))
          /\ WF_vars(w \in Workers /\ FairStep(ReqRelease(w)))
          /\ WF_vars(w \in Workers /\ FairStep(WorkerPlayGame(w)))
          /\ WF_vars(w \in Workers /\ FairStep(WorkerClose(w)))

SpecFair == Init /\ [][Next]_vars /\ Fairness

\* The run of src/tools/generate_training_data.py
InitTool == ToolInit /\ CodecIdle /\ GameIdle /\ DriverIdle /\ LimitIdle /\ TrainIdle

NextTool ==
    \/ MainStart
          /\ UNCHANGED <<codecVars, gameVars, driverVars, limitVars, trainVars>>
    \/ MainAcquire
          /\ UNCHANGED <<codecVars, gameVars, driverVars, limitVars, trainVars>>
    \/ ToolReport
          /\ UNCHANGED <<codecVars, gameVars, driverVars, limitVars, trainVars>>
    \/ MainJoin
          /\ UNCHANGED <<codecVars, gameVars, driverVars, limitVars, trainVars>>
    \/ ToolMergeOpen
          /\ UNCHANGED <<codecVars, gameVars, driverVars, limitVars, trainVars>>
    \/ ToolCopy
          /\ UNCHANGED <<codecVars, gameVars, driverVars, limitVars, trainVars>>
    \/ MainRemove
          /\ UNCHANGED <<codecVars, gameVars, driverVars, limitVars, trainVars>>
    \/ \E w \in Workers :
          ToolWorkerStart(w)
          /\ UNCHANGED <<codecVars, gameVars, driverVars, limitVars, trainVars>>
    \/ \E w \in Workers : ReqAcquire(w)
          /\ UNCHANGED <<codecVars, gameVars, driverVars, limitVars, trainVars>>
    \/ \E w \in Workers : ReqAlloc(w)
          /\ UNCHANGED <<codecVars, gameVars, driverVars, limitVars, trainVars>>
    \/ \E w \in Workers : ReqRelease(w)
          /\ UNCHANGED <<codecVars, gameVars, driverVars, limitVars, trainVars>>
    \/ \E w \in Workers :
          ToolGenerateBatch(w)
          /\ UNCHANGED <<codecVars, gameVars, driverVars, limitVars, trainVars>>
    \/ \E w \in Workers :
          ToolWorkerExit(w)
          /\ UNCHANGED <<codecVars, gameVars, driverVars, limitVars, trainVars>>

SpecTool == InitTool /\ [][NextTool]_vars

WorkIdle ==
    /\ npositions = 0
    /\ nthreads = 0
    /\ remaining_work = 0
    /\ finished_work = 0
    /\ position_lock = {}
    /\ w_pc = << >>
    /\ work_todo = << >>
    /\ pos_left = << >>
    /\ npos = << >>
    /\ req_snap = << >>
    /\ shard_open = << >>
    /\ shard = << >>
    /\ allocated = 0
    /\ m_pc = "idle"
    /\ m_i = 0
    /\ pos_generated = 0
    /\ output_open = FALSE
    /\ output = << >>

InitCodec == CodecInit /\ WorkIdle /\ GameIdle /\ DriverIdle /\ LimitIdle /\ TrainIdle

NextCodec ==
    \/ CodecEncodePosition
          /\ UNCHANGED <<workVars, gameVars, driverVars, limitVars, trainVars>>
    \/ CodecMakeSfen
          /\ UNCHANGED <<workVars, gameVars, driverVars, limitVars, trainVars>>
    \/ CodecWriteSfenBin
          /\ UNCHANGED <<workVars, gameVars, driverVars, limitVars, trainVars>>

SpecCodec == InitCodec /\ [][NextCodec]_vars

InitGame == GameInit /\ WorkIdle /\ CodecIdle /\ DriverIdle /\ LimitIdle /\ TrainIdle

NextGame ==
    \/ GameSetup
          /\ UNCHANGED <<workVars, codecVars, driverVars, limitVars, trainVars, g_script>>
    \/ RandomMove
          /\ UNCHANGED <<workVars, codecVars, driverVars, limitVars, trainVars, g_script>>
    \/ GameOpened
          /\ UNCHANGED <<workVars, codecVars, driverVars, limitVars, trainVars, g_script>>
    \/ EnginePlay
          /\ UNCHANGED <<workVars, codecVars, driverVars, limitVars, trainVars, g_script>>
    \/ GameLoopExit
          /\ UNCHANGED <<workVars, codecVars, driverVars, limitVars, trainVars, g_script>>
    \/ GameHandle
          /\ UNCHANGED <<workVars, codecVars, driverVars, limitVars, trainVars, g_script>>
    \/ GameQuit
          /\ UNCHANGED <<workVars, codecVars, driverVars, limitVars, trainVars, g_script>>
    \/ GameWrite
          /\ UNCHANGED <<workVars, codecVars, driverVars, limitVars, trainVars, g_script>>

SpecGame == InitGame /\ [][NextGame]_vars

\* One engine session of genquiet.py, gentrainingset.py or perft.py
InitDriver ==
    DriverInit /\ WorkIdle /\ CodecIdle /\ GameIdle /\ LimitIdle /\ TrainIdle

NextDriver ==
    \/ DriverStart
          /\ UNCHANGED <<workVars, codecVars, gameVars, limitVars, trainVars>>
    \/ DriverRecvUntil
          /\ UNCHANGED <<workVars, codecVars, gameVars, limitVars, trainVars>>
    \/ DriverSetOption
          /\ UNCHANGED <<workVars, codecVars, gameVars, limitVars, trainVars>>
    \/ DriverItem
          /\ UNCHANGED <<workVars, codecVars, gameVars, limitVars, trainVars>>
    \/ DriverFinish
          /\ UNCHANGED <<workVars, codecVars, gameVars, limitVars, trainVars>>
    \/ DriverBrokenPipe
          /\ UNCHANGED <<workVars, codecVars, gameVars, limitVars, trainVars>>

SpecDriver == InitDriver /\ [][NextDriver]_vars

\* The search requests of one call of play_game
InitLimit ==
    LimitInit /\ WorkIdle /\ CodecIdle /\ GameIdle /\ DriverIdle /\ TrainIdle

NextLimit ==
    \/ LimitSetup
          /\ UNCHANGED <<workVars, codecVars, gameVars, driverVars, trainVars>>
    \/ LimitPlay
          /\ UNCHANGED <<workVars, codecVars, gameVars, driverVars, trainVars>>
    \/ LimitLoopExit
          /\ UNCHANGED <<workVars, codecVars, gameVars, driverVars, trainVars>>

SpecLimit == InitLimit /\ [][NextLimit]_vars

\* One run of gentrainingset.py
InitTrain ==
    /\ TrainInit /\ WorkIdle /\ CodecIdle /\ GameIdle /\ DriverIdle
    /\ LimitIdle

NextTrain ==
    \/ TrainSkipGame
          /\ UNCHANGED <<workVars, codecVars, gameVars, driverVars, limitVars>>
    \/ TrainIterate
          /\ UNCHANGED <<workVars, codecVars, gameVars, driverVars, limitVars>>
    \/ TrainSelect
          /\ UNCHANGED <<workVars, codecVars, gameVars, driverVars, limitVars>>
    \/ TrainWrite
          /\ UNCHANGED <<workVars, codecVars, gameVars, driverVars, limitVars>>
    \/ TrainConvertRaises
          /\ UNCHANGED <<workVars, codecVars, gameVars, driverVars, limitVars>>
    \/ TrainEnd
          /\ UNCHANGED <<workVars, codecVars, gameVars, driverVars, limitVars>>

SpecTrain == InitTrain /\ [][NextTrain]_vars

=============================================================================
